---- MODULE Spec2Model ----
(***************************************************************************)
(* The feature lifecycle and phase-inference engine of kit                 *)
(* (internal/feature, pkg/cli/complete.go), as a state machine over the    *)
(* specs directory.  Strings are sequences of one-character strings, so    *)
(* that the regular expressions, the line scanner and the formatting of    *)
(* directory names are modelled by what they do to the bytes.              *)
(***************************************************************************)
EXTENDS Integers, Sequences, FiniteSets, TLC

VARIABLES
    specsExists,  \* whether the specs directory exists on disk
    root,         \* the entries of the specs directory: a set of [name, isDir, files]
    summary,      \* docs/PROJECT_PROGRESS_SUMMARY.md: <<>> when absent, else <<rows>>
    result,       \* what the last operation was given and what it returned
    assigned      \* the numbers Create has returned so far

vars == <<specsExists, root, summary, result, assigned>>

(***************************************************************************)
(* Bounds of the model.                                                    *)
(***************************************************************************)
\* the most lines an editor types into a TASKS.md
MaxLines == 2
\* the highest feature number Create is let to assign
MaxNumber == 3
\* the longest string of arbitrary bytes given to the slug functions
MaxSlugLen == 5
\* the most words of a slug given to ValidateSlug
MaxWordsTried == 7
\* the most lines of a tasks file given to the counters
MaxTaskLines == 4
\* the most lines of a document given to Parse
MaxDocLines == 4

\* the largest number a directory is named with
MaxDirNumber == 12

\* lines of a TASKS.md an editor checks and unchecks boxes in
MaxEditLines == 6

\* lines of the files and of the templates MergeDocument is given
MaxMergeLines == 2

(***************************************************************************)
(* Bytes and strings.                                                      *)
(***************************************************************************)
UpperLetters == <<"A","B","C","D","E","F","G","H","I","J","K","L","M",
                  "N","O","P","Q","R","S","T","U","V","W","X","Y","Z">>
LowerLetters == <<"a","b","c","d","e","f","g","h","i","j","k","l","m",
                  "n","o","p","q","r","s","t","u","v","w","x","y","z">>
Digits == <<"0","1","2","3","4","5","6","7","8","9">>

\* the bytes of the names the model uses, in ASCII order
AsciiOrder == <<" ", "-">> \o Digits \o UpperLetters \o <<"_">> \o LowerLetters

Ord(c) == CHOOSE i \in 1..Len(AsciiOrder) : AsciiOrder[i] = c

IsDigit(c) == \E i \in 1..Len(Digits) : Digits[i] = c
IsLower(c) == \E i \in 1..Len(LowerLetters) : LowerLetters[i] = c
IsUpper(c) == \E i \in 1..Len(UpperLetters) : UpperLetters[i] = c

DigitValue(c) == (CHOOSE i \in 1..Len(Digits) : Digits[i] = c) - 1

\* regexp \s
IsSpace(c) == c \in {" ", "\t", "\n", "\f", "\r"}

\* whether sub occurs in s at position i
HasPrefixAt(s, sub, i) ==
    /\ i >= 1
    /\ i + Len(sub) - 1 <= Len(s)
    /\ \A k \in 1..Len(sub) : s[i + k - 1] = sub[k]

Contains(s, sub) == \E i \in 1..(Len(s) + 1) : HasPrefixAt(s, sub, i)

HasSuffix(s, suf) == HasPrefixAt(s, suf, Len(s) - Len(suf) + 1)

\* byte-wise order of two strings
StrLess(a, b) ==
    \E i \in 1..(Len(b)) :
        /\ \A k \in 1..(i - 1) : k <= Len(a) /\ a[k] = b[k]
        /\ i - 1 <= Len(a)
        /\ (i > Len(a) \/ Ord(a[i]) < Ord(b[i]))

(***************************************************************************)
(* The tasks file: the marker, the line scanner and the checkbox patterns. *)
(***************************************************************************)
ReflectionCompleteMarker ==
    <<"<","!","-","-"," ","R","E","F","L","E","C","T","I","O","N","_",
      "C","O","M","P","L","E","T","E"," ","-","-",">">>

\* bufio.ScanLines drops one trailing carriage return
DropCR(line) ==
    IF Len(line) > 0 /\ line[Len(line)] = "\r"
    THEN SubSeq(line, 1, Len(line) - 1)
    ELSE line

\* bufio.Scanner with ScanLines: the lines of s from position i on
RECURSIVE ScanLinesFrom(_, _)
ScanLinesFrom(s, i) ==
    IF i > Len(s) THEN <<>>
    ELSE LET nl == {j \in i..Len(s) : s[j] = "\n"}
         IN  IF nl = {} THEN <<DropCR(SubSeq(s, i, Len(s)))>>
             ELSE LET j == CHOOSE x \in nl : \A y \in nl : x <= y
                  IN  <<DropCR(SubSeq(s, i, j - 1))>> \o ScanLinesFrom(s, j + 1)

ScanLines(s) == ScanLinesFrom(s, 1)

\* the first position at or after i that holds no white space
RECURSIVE SkipSpace(_, _)
SkipSpace(line, i) ==
    IF i <= Len(line) /\ IsSpace(line[i]) THEN SkipSpace(line, i + 1) ELSE i

At(line, i, c) == i <= Len(line) /\ line[i] = c

\* ^\s*-\s*\[\s*\]
incompletePattern(line) ==
    LET a == SkipSpace(line, 1)
        b == SkipSpace(line, a + 1)
        c == SkipSpace(line, b + 1)
    IN  At(line, a, "-") /\ At(line, b, "[") /\ At(line, c, "]")

\* ^\s*-\s*\[[xX]\]
completePattern(line) ==
    LET a == SkipSpace(line, 1)
        b == SkipSpace(line, a + 1)
    IN  /\ At(line, a, "-")
        /\ At(line, b, "[")
        /\ (At(line, b + 1, "x") \/ At(line, b + 1, "X"))
        /\ At(line, b + 2, "]")

\* the scan of a readable tasks file: the counts and whether the marker is there
\* the lines that count as a task, and those that count as a completed one
\* a counter that takes only the unchecked boxes for tasks
IsTaskLineUncheckedOnly(line) == incompletePattern(line)

IsTaskLine(line) == incompletePattern(line) \/ completePattern(line)
IsDoneLine(line) == ~incompletePattern(line) /\ completePattern(line)

scanTaskLines(lines) ==
    [Total |-> Cardinality({i \in 1..Len(lines) : IsTaskLine(lines[i])}),
     Complete |-> Cardinality({i \in 1..Len(lines) : IsDoneLine(lines[i])}),
     hasReflectionMarker |->
         \E i \in 1..Len(lines) : Contains(lines[i], ReflectionCompleteMarker)]

parseTaskProgressFromPath(content) == scanTaskLines(ScanLines(content))

\* status.go's counter, used by kit complete
countTaskLines(lines) ==
    [Total |-> Cardinality({i \in 1..Len(lines) : IsTaskLine(lines[i])}),
     Complete |-> Cardinality({i \in 1..Len(lines) : IsDoneLine(lines[i])})]

ParseTaskProgress(content) == countTaskLines(ScanLines(content))

Incomplete(p) == p.Total - p.Complete
HasTasks(p) == p.Total > 0

(***************************************************************************)
(* Phases.                                                                 *)
(***************************************************************************)
PhaseSpec == "spec"
PhasePlan == "plan"
PhaseTasks == "tasks"
PhaseImplement == "implement"
PhaseReflect == "reflect"
PhaseComplete == "complete"

\* DeterminePhaseFromTasks once the file is scanned
phaseFromProgress(p) ==
    IF p.Total = 0 THEN PhaseTasks
    ELSE IF p.Complete = p.Total
         THEN (IF p.hasReflectionMarker THEN PhaseComplete ELSE PhaseReflect)
         ELSE PhaseImplement

DeterminePhaseFromTasks(content) == phaseFromProgress(parseTaskProgressFromPath(content))

(***************************************************************************)
(* The file system under the specs directory.                              *)
(***************************************************************************)
FileNames == {"SPEC.md", "PLAN.md", "TASKS.md", "ANALYSIS.md"}

NoFile == [exists |-> FALSE, data |-> <<>>]
File(content) == [exists |-> TRUE, data |-> content]
NoFiles == [f \in FileNames |-> NoFile]

Dir(name) == [name |-> name, isDir |-> TRUE, files |-> NoFiles]
PlainFile(name) == [name |-> name, isDir |-> FALSE, files |-> NoFiles]

Names == {e.name : e \in root}
Entry(name) == CHOOSE e \in root : e.name = name

\* os.Stat(featurePath/f) succeeds
Stat(e, f) == e.isDir /\ e.files[f].exists

\* a DeterminePhase that looks at PLAN.md before TASKS.md
DeterminePhasePlanFirst(e) ==
    IF Stat(e, "PLAN.md") THEN PhasePlan
    ELSE IF Stat(e, "TASKS.md") THEN DeterminePhaseFromTasks(e.files["TASKS.md"].data)
    ELSE PhaseSpec

DeterminePhase(e) ==
    IF Stat(e, "TASKS.md") THEN DeterminePhaseFromTasks(e.files["TASKS.md"].data)
    ELSE IF Stat(e, "PLAN.md") THEN PhasePlan
    ELSE IF Stat(e, "SPEC.md") THEN PhaseSpec
    ELSE PhaseSpec

(***************************************************************************)
(* Slugs and directory names.                                              *)
(***************************************************************************)
ToLowerChar(c) ==
    IF IsUpper(c)
    THEN LowerLetters[CHOOSE i \in 1..Len(UpperLetters) : UpperLetters[i] = c]
    ELSE c

RECURSIVE ToLower(_)
ToLower(s) ==
    IF Len(s) = 0 THEN <<>> ELSE <<ToLowerChar(Head(s))>> \o ToLower(Tail(s))

\* strings.ReplaceAll(s, " ", "-") and strings.ReplaceAll(s, "_", "-")
RECURSIVE HyphenateBlanks(_)
HyphenateBlanks(s) ==
    IF Len(s) = 0 THEN <<>>
    ELSE <<IF Head(s) = " " \/ Head(s) = "_" THEN "-" ELSE Head(s)>>
         \o HyphenateBlanks(Tail(s))

IsSlugChar(c) == IsLower(c) \/ IsDigit(c)

\* (-[a-z0-9]+)*$ from position i on
RECURSIVE slugTail(_, _)
slugTail(s, i) ==
    IF i > Len(s) THEN TRUE
    ELSE IF IsSlugChar(s[i]) THEN slugTail(s, i + 1)
    ELSE /\ s[i] = "-"
         /\ i + 1 <= Len(s)
         /\ IsSlugChar(s[i + 1])
         /\ slugTail(s, i + 1)

\* ^[a-z][a-z0-9]*(-[a-z0-9]+)*$
slugPattern(s) == Len(s) >= 1 /\ IsLower(s[1]) /\ slugTail(s, 2)

\* len(strings.Split(slug, "-"))
WordCount(s) == Cardinality({i \in 1..Len(s) : s[i] = "-"}) + 1

MaxWords == 5

\* a ValidateSlug that does not count the words
ValidateSlugNoWordLimit(slug) ==
    /\ slug # <<>>
    /\ slugPattern(slug)

ValidateSlug(slug) ==
    /\ slug # <<>>
    /\ slugPattern(slug)
    /\ WordCount(slug) <= MaxWords

\* strings.ReplaceAll(s, "--", "-"): left to right, without overlap
RECURSIVE ReplaceDoubleHyphen(_)
ReplaceDoubleHyphen(s) ==
    IF Len(s) = 0 THEN <<>>
    ELSE IF HasPrefixAt(s, <<"-", "-">>, 1)
         THEN <<"-">> \o ReplaceDoubleHyphen(SubSeq(s, 3, Len(s)))
         ELSE <<s[1]>> \o ReplaceDoubleHyphen(Tail(s))

\* a collapse of hyphens that replaces once instead of until none is left
CollapseHyphensOnce(s) == ReplaceDoubleHyphen(s)

RECURSIVE CollapseHyphens(_)
CollapseHyphens(s) ==
    IF Contains(s, <<"-", "-">>) THEN CollapseHyphens(ReplaceDoubleHyphen(s)) ELSE s

\* strings.Trim(s, "-")
RECURSIVE TrimHyphens(_)
TrimHyphens(s) ==
    IF Len(s) > 0 /\ s[1] = "-" THEN TrimHyphens(Tail(s))
    ELSE IF Len(s) > 0 /\ s[Len(s)] = "-" THEN TrimHyphens(SubSeq(s, 1, Len(s) - 1))
    ELSE s

\* a NormalizeSlug that keeps letters and hyphens only
NormalizeSlugNoDigits(input) ==
    LET hyph == HyphenateBlanks(ToLower(input))
        kept == SelectSeq(hyph, LAMBDA c : IsLower(c) \/ c = "-")
    IN  TrimHyphens(CollapseHyphens(kept))

NormalizeSlug(input) ==
    LET hyph == HyphenateBlanks(ToLower(input))
        kept == SelectSeq(hyph, LAMBDA c : IsLower(c) \/ IsDigit(c) \/ c = "-")
    IN  TrimHyphens(CollapseHyphens(kept))

\* the naming options of config.Default()
DefaultWidth == 4
DefaultConfig == [NumericWidth |-> DefaultWidth, Separator |-> <<"-">>]

\* %d
RECURSIVE Decimal(_)
Decimal(n) ==
    IF n < 10 THEN <<Digits[n + 1]>>
    ELSE Decimal(n \div 10) \o <<Digits[(n % 10) + 1]>>

\* %0Wd
RECURSIVE ZeroPad(_, _)
ZeroPad(ds, width) == IF Len(ds) < width THEN ZeroPad(<<"0">> \o ds, width) ELSE ds

FormatDirName(cfg, number, slug) ==
    ZeroPad(Decimal(number), cfg.NumericWidth) \o cfg.Separator \o slug

\* strconv.Atoi of a string of digits
RECURSIVE Atoi(_)
Atoi(ds) ==
    IF Len(ds) = 0 THEN 0
    ELSE 10 * Atoi(SubSeq(ds, 1, Len(ds) - 1)) + DigitValue(ds[Len(ds)])

\* the length of the run of digits that starts s
RECURSIVE DigitRun(_, _)
DigitRun(s, i) == IF i <= Len(s) /\ IsDigit(s[i]) THEN DigitRun(s, i + 1) ELSE i - 1

\* ^(\d+)-(.+)$ with strconv.Atoi of the first group
matchDirName(dirName, k) ==
    IF /\ k >= 1
       /\ At(dirName, k + 1, "-")
       /\ Len(dirName) >= k + 2
       /\ \A i \in (k + 2)..Len(dirName) : dirName[i] # "\n"
    THEN [ok |-> TRUE, number |-> Atoi(SubSeq(dirName, 1, k)),
          slug |-> SubSeq(dirName, k + 2, Len(dirName))]
    ELSE [ok |-> FALSE, number |-> 0, slug |-> <<>>]

ParseDirName(dirName) == matchDirName(dirName, DigitRun(dirName, 1))

(***************************************************************************)
(* The registry of feature directories.                                    *)
(***************************************************************************)
NoFeature == [Number |-> 0, Slug |-> <<>>, DirName |-> <<>>, Phase |-> PhaseSpec]

featureFrom(e, parsed) ==
    [Number |-> parsed.number, Slug |-> parsed.slug,
     DirName |-> e.name, Phase |-> DeterminePhase(e)]

FeatureOf(e) == featureFrom(e, ParseDirName(e.name))

\* the order of the listing: by number, entries of one number as os.ReadDir
\* gives them (by name)
FeatureBefore(f, g) ==
    \/ f.Number < g.Number
    \/ f.Number = g.Number /\ StrLess(f.DirName, g.DirName)

\* a listing left in the order of os.ReadDir
RECURSIVE SortFeaturesByName(_)
SortFeaturesByName(fs) ==
    IF fs = {} THEN <<>>
    ELSE LET first == CHOOSE f \in fs : \A g \in fs \ {f} : StrLess(f.DirName, g.DirName)
         IN  <<first>> \o SortFeaturesByName(fs \ {first})

RECURSIVE SortFeatures(_)
SortFeatures(fs) ==
    IF fs = {} THEN <<>>
    ELSE LET first == CHOOSE f \in fs : \A g \in fs \ {f} : FeatureBefore(f, g)
         IN  <<first>> \o SortFeatures(fs \ {first})

ListFeaturesIn(exists, entries) ==
    IF ~exists THEN <<>>
    ELSE SortFeatures({FeatureOf(e) : e \in {x \in entries :
                                        x.isDir /\ ParseDirName(x.name).ok}})

ListFeatures == ListFeaturesIn(specsExists, root)

\* a NextNumber that counts the features
nextAfterCount(features) == Len(features) + 1

\* a NextNumber that fills the first gap
nextAfterFirstGap(features) ==
    CHOOSE n \in 1..(Len(features) + 1) :
        /\ \A i \in 1..Len(features) : features[i].Number # n
        /\ \A m \in 1..(n - 1) : \E i \in 1..Len(features) : features[i].Number = m

nextAfter(features) ==
    IF Len(features) = 0 THEN 1 ELSE features[Len(features)].Number + 1

NextNumber == nextAfter(ListFeatures)

\* the first feature of the listing that p holds of
\* the first feature of the listing among those at the positions hits
firstOf(features, hits) ==
    IF hits = {} THEN [found |-> FALSE, feat |-> NoFeature]
    ELSE [found |-> TRUE,
          feat |-> features[CHOOSE i \in hits : \A j \in hits : i <= j]]

\* a FindBySlug that takes a part of a slug for the slug
findBySlugInPartial(features, lower) ==
    firstOf(features, {i \in 1..Len(features) : Contains(ToLower(features[i].Slug), lower)})

findBySlugIn(features, lower) ==
    firstOf(features, {i \in 1..Len(features) : ToLower(features[i].Slug) = lower})

\* a FindBySlug that does not lower the reference
FindBySlugCaseSensitive(slug) == findBySlugIn(ListFeatures, slug)

FindBySlug(slug) == findBySlugIn(ListFeatures, ToLower(slug))

findByDirNameIn(features, dirName) ==
    firstOf(features, {i \in 1..Len(features) : features[i].DirName = dirName})

FindByDirName(dirName) == findByDirNameIn(ListFeatures, dirName)

orElse(first, second) == IF first.found THEN first ELSE second

Resolve(ref) == orElse(FindByDirName(ref), FindBySlug(ref))

\* what an operation was given and what it returned
Result(op, arg, ok, err, val) ==
    [op |-> op, arg |-> arg, ok |-> ok, err |-> err, val |-> val]

\* an operation's return without a change of the specs directory
failure(err, feat) ==
    [ok |-> FALSE, err |-> err, feat |-> feat, created |-> FALSE,
     exists |-> specsExists, root |-> root]

\* an os.Mkdir in the place of os.MkdirAll: an existing directory is an error
mkdirExclusive(num, slug, dirName) ==
    IF dirName \in Names THEN failure("IOFailure", NoFeature)
    ELSE [ok |-> TRUE, err |-> "",
          feat |-> [Number |-> num, Slug |-> slug, DirName |-> dirName,
                    Phase |-> PhaseSpec],
          created |-> TRUE,
          exists |-> TRUE,
          root |-> root \cup {Dir(dirName)}]

\* os.MkdirAll(path): an existing directory is left as it is
mkdirAll(num, slug, dirName) ==
    IF \E e \in root : e.name = dirName /\ ~e.isDir
    THEN failure("IOFailure", NoFeature)
    ELSE [ok |-> TRUE, err |-> "",
          feat |-> [Number |-> num, Slug |-> slug, DirName |-> dirName,
                    Phase |-> PhaseSpec],
          created |-> TRUE,
          exists |-> TRUE,
          root |-> IF dirName \in Names THEN root ELSE root \cup {Dir(dirName)}]

\* a Create that does not look for the slug among the features
createWithNoExistsCheck(cfg, slug, existing, num) ==
    IF ~ValidateSlug(slug) THEN failure("InvalidSlug", NoFeature)
    ELSE mkdirAll(num, slug, FormatDirName(cfg, num, slug))

\* a Create that makes the directory before it looks for the slug
createWithLateCheck(cfg, slug, existing, num) ==
    IF ~ValidateSlug(slug) THEN failure("InvalidSlug", NoFeature)
    ELSE IF existing.found
         THEN [failure("AlreadyExists", existing.feat) EXCEPT
                  !.root = root \cup {Dir(FormatDirName(cfg, num, slug))}]
    ELSE mkdirAll(num, slug, FormatDirName(cfg, num, slug))

createWith(cfg, slug, existing, num) ==
    IF ~ValidateSlug(slug) THEN failure("InvalidSlug", NoFeature)
    ELSE IF existing.found THEN failure("AlreadyExists", existing.feat)
    ELSE mkdirAll(num, slug, FormatDirName(cfg, num, slug))

\* Create: its return values and the specs directory it leaves
CreateOutcome(cfg, slug) == createWith(cfg, slug, FindBySlug(slug), NextNumber)

\* two invocations of Create that run at the same time
RaceProcs == {1, 2}

\* an invocation that has not started: where it is, what it returned, the
\* number and the name it computed, and when it checked and made the directory
Idle == [pc |-> "start", ok |-> FALSE, err |-> "", num |-> 0, dirName |-> <<>>,
         checked |-> 0, made |-> 0]

NoRace == [clock |-> 0, procs |-> [p \in RaceProcs |-> Idle]]

\* Create up to the directory name: ValidateSlug, FindBySlug, NextNumber,
\* FormatDirName
checkWith(cfg, slug, existing, num, now) ==
    IF ~ValidateSlug(slug)
    THEN [Idle EXCEPT !.pc = "done", !.err = "InvalidSlug", !.checked = now]
    ELSE IF existing.found
    THEN [Idle EXCEPT !.pc = "done", !.err = "AlreadyExists", !.checked = now]
    ELSE [Idle EXCEPT !.pc = "checked", !.num = num,
                      !.dirName = FormatDirName(cfg, num, slug), !.checked = now]

\* Create from os.MkdirAll on
madeWith(local, r, now) ==
    [local EXCEPT !.pc = "done", !.ok = r.ok, !.err = r.err, !.made = now]

ensureWith(cfg, found, slug) ==
    IF found.found
    THEN [ok |-> TRUE, err |-> "", feat |-> found.feat, created |-> FALSE,
          exists |-> specsExists, root |-> root]
    ELSE IF ~ValidateSlug(slug) THEN failure("InvalidSlug", NoFeature)
    ELSE CreateOutcome(cfg, slug)

EnsureExistsOutcome(cfg, ref) == ensureWith(cfg, Resolve(ref), NormalizeSlug(ref))

(***************************************************************************)
(* kit complete.                                                           *)
(***************************************************************************)
\* an appendReflectionMarker that does not look for the marker
appendReflectionMarkerAlways(content) ==
    (IF HasSuffix(content, <<"\n">>) THEN content ELSE content \o <<"\n">>)
    \o <<"\n">> \o ReflectionCompleteMarker \o <<"\n">>

\* an appendReflectionMarker that always puts a newline after the content
appendReflectionMarkerNewline(content) ==
    IF Contains(content, ReflectionCompleteMarker) THEN content
    ELSE content \o <<"\n">> \o <<"\n">> \o ReflectionCompleteMarker \o <<"\n">>

appendReflectionMarker(content) ==
    IF Contains(content, ReflectionCompleteMarker) THEN content
    ELSE (IF HasSuffix(content, <<"\n">>) THEN content ELSE content \o <<"\n">>)
         \o <<"\n">> \o ReflectionCompleteMarker \o <<"\n">>

WithFile(e, f, file) == [e EXCEPT !.files[f] = file]

\* the specs directory with file f of directory d replaced
PutFile(d, f, file) == (root \ {Entry(d)}) \cup {WithFile(Entry(d), f, file)}

\* rollup.Generate: one row of the progress table per feature
RECURSIVE summaryRows(_)
summaryRows(features) ==
    IF Len(features) = 0 THEN <<>>
    ELSE <<[ID |-> ZeroPad(Decimal(Head(features).Number), DefaultWidth),
            Name |-> Head(features).Slug, Phase |-> Head(features).Phase]>>
         \o summaryRows(Tail(features))

Rollup(entries) == <<summaryRows(ListFeaturesIn(TRUE, entries))>>

\* selectFeatureForCompletion: the features that have a TASKS.md and are not complete
candidatesIn(features) ==
    SelectSeq(features,
              LAMBDA f : Stat(Entry(f.DirName), "TASKS.md") /\ f.Phase # PhaseComplete)

Candidates == candidatesIn(ListFeatures)

kept(ok, err) == [ok |-> ok, err |-> err, root |-> root, summary |-> summary]

marked(entries) == [ok |-> TRUE, err |-> "", root |-> entries, summary |-> Rollup(entries)]

\* a runComplete that does not look at the task counts
completeWithUnchecked(dirName, content, force, progress) ==
    IF DeterminePhaseFromTasks(content) = PhaseComplete THEN kept(TRUE, "")
    ELSE marked(PutFile(dirName, "TASKS.md", File(appendReflectionMarker(content))))

completeWith(dirName, content, force, progress) ==
    IF DeterminePhaseFromTasks(content) = PhaseComplete THEN kept(TRUE, "")
    ELSE IF ~force /\ HasTasks(progress) /\ Incomplete(progress) > 0
         THEN kept(FALSE, "TasksIncomplete")
    ELSE marked(PutFile(dirName, "TASKS.md", File(appendReflectionMarker(content))))

\* runComplete from the feature it picked on
CompleteOutcome(e, force) ==
    IF ~Stat(e, "TASKS.md") THEN kept(FALSE, "NoTasks")
    ELSE completeWith(e.name, e.files["TASKS.md"].data, force,
                      ParseTaskProgress(e.files["TASKS.md"].data))

(***************************************************************************)
(* The scaffolding commands: kit spec, plan, tasks, oneshot, scaffold.     *)
(***************************************************************************)
\* the templates, cut down to their title and, for TASKS.md, its checkbox
Templates ==
       "SPEC.md" :> <<"#", " ", "S", "P", "E", "C", "\n">>
    @@ "PLAN.md" :> <<"#", " ", "P", "L", "A", "N", "\n">>
    @@ "TASKS.md" :> <<"#", " ", "T", "A", "S", "K", "S", "\n", "-", " ", "[", " ", "]", " ", "T", "0", "0", "1", "\n">>
    @@ "ANALYSIS.md" :> <<"#", " ", "A", "N", "A", "L", "Y", "S", "I", "S", "\n">>

\* an ensureArtifact that writes the template whether the file is there or not
ensureArtifactOverwriting(e, f) == WithFile(e, f, File(Templates[f]))

\* document.Exists, then document.Write of the template
ensureArtifact(e, f) == IF Stat(e, f) THEN e ELSE WithFile(e, f, File(Templates[f]))

\* the documents of a list, one after the other
RECURSIVE ensureArtifacts(_, _)
ensureArtifacts(e, fs) ==
    IF Len(fs) = 0 THEN e ELSE ensureArtifacts(ensureArtifact(e, Head(fs)), Tail(fs))

\* the entries with the documents ensured in the directory named
scaffolded(entries, dirName, fs) ==
    {IF x.name = dirName THEN ensureArtifacts(x, fs) ELSE x : x \in entries}

\* what the commands do after ensureDir and EnsureExists returned r
withDocs(r, fs) ==
    IF ~r.ok THEN [r EXCEPT !.exists = TRUE]
    ELSE [r EXCEPT !.exists = TRUE, !.root = scaffolded(r.root, r.feat.DirName, fs)]

runSpec(r) == withDocs(r, <<"SPEC.md">>)

runOneshot(r, hasSpec) ==
    IF ~hasSpec THEN [failure("NoBrainstorm", NoFeature) EXCEPT !.exists = TRUE]
    ELSE withDocs(r, <<"SPEC.md", "PLAN.md", "TASKS.md">>)

runScaffold(r) == withDocs(r, <<"SPEC.md", "PLAN.md", "TASKS.md", "ANALYSIS.md">>)

\* what kit plan and kit tasks do to the feature they resolved
resolvedDocs(feat, fs) ==
    [ok |-> TRUE, err |-> "", feat |-> feat, created |-> FALSE,
     exists |-> specsExists, root |-> scaffolded(root, feat.DirName, fs)]

\* a kit plan that does not look for SPEC.md
runPlanUnchecked(found, force, allow) ==
    IF ~found.found THEN failure("NotFound", NoFeature)
    ELSE resolvedDocs(found.feat, <<"PLAN.md">>)

runPlan(found, force, allow) ==
    IF ~found.found THEN failure("NotFound", NoFeature)
    ELSE IF ~Stat(Entry(found.feat.DirName), "SPEC.md") /\ ~(force \/ allow)
    THEN failure("MissingPrerequisite", found.feat)
    ELSE resolvedDocs(found.feat, <<"SPEC.md", "PLAN.md">>)

\* a kit tasks that with --force goes on without the missing documents
runTasksSkipping(found, force, allow) ==
    IF ~found.found THEN failure("NotFound", NoFeature)
    ELSE IF ~Stat(Entry(found.feat.DirName), "PLAN.md") /\ ~(force \/ allow)
    THEN failure("MissingPrerequisite", found.feat)
    ELSE resolvedDocs(found.feat, <<"TASKS.md">>)

runTasks(found, force, allow) ==
    IF ~found.found THEN failure("NotFound", NoFeature)
    ELSE IF Stat(Entry(found.feat.DirName), "PLAN.md")
    THEN resolvedDocs(found.feat, <<"TASKS.md">>)
    ELSE IF ~(force \/ allow) THEN failure("MissingPrerequisite", found.feat)
    ELSE resolvedDocs(found.feat, <<"SPEC.md", "PLAN.md", "TASKS.md">>)

(***************************************************************************)
(* The all-features progress table of kit status.                          *)
(***************************************************************************)
\* the order map of phaseMarker
order == PhaseSpec :> 1 @@ PhasePlan :> 2 @@ PhaseTasks :> 3
            @@ PhaseImplement :> 4 @@ PhaseReflect :> 5

\* order[phase]: the zero value for a key the map has not
orderOf(phase) == IF phase \in DOMAIN order THEN order[phase] ELSE 0

markerOf(currentIdx, targetIdx) ==
    IF targetIdx < currentIdx THEN "complete"
    ELSE IF targetIdx = currentIdx THEN "current"
    ELSE "pending"

phaseMarker(current, target) == markerOf(orderOf(current), orderOf(target))

\* the columns of a row of the table
RowTargets == {PhaseSpec, PhasePlan, PhaseTasks, PhaseImplement, PhaseReflect}

(***************************************************************************)
(* Documents and their sections (package document).                        *)
(***************************************************************************)
ToUpperChar(c) ==
    IF IsLower(c)
    THEN UpperLetters[CHOOSE i \in 1..Len(LowerLetters) : LowerLetters[i] = c]
    ELSE c

RECURSIVE ToUpper(_)
ToUpper(s) ==
    IF Len(s) = 0 THEN <<>> ELSE <<ToUpperChar(Head(s))>> \o ToUpper(Tail(s))

\* strings.TrimSpace, on the white space of the model's bytes
RECURSIVE TrimSpace(_)
TrimSpace(s) ==
    IF Len(s) > 0 /\ s[1] \in {" ", "\t", "\n", "\f", "\r"} THEN TrimSpace(Tail(s))
    ELSE IF Len(s) > 0 /\ s[Len(s)] \in {" ", "\t", "\n", "\f", "\r"}
    THEN TrimSpace(SubSeq(s, 1, Len(s) - 1))
    ELSE s

\* the last position of the line that holds position i
RECURSIVE lineEndFrom(_, _)
lineEndFrom(s, i) ==
    IF i > Len(s) \/ s[i] = "\n" THEN i - 1 ELSE lineEndFrom(s, i + 1)

NoMatch == [ok |-> FALSE, start |-> 0, nameStart |-> 0, end |-> 0]

\* (.+)$ after the white space that \s+ took up to position q - 1; when the
\* white space runs to the end of the text, \s+ gives back as little as leaves
\* (.+) a byte that is not a newline
headerName(s, p, q) ==
    IF q = p + 2 THEN NoMatch
    ELSE IF q <= Len(s)
    THEN [ok |-> TRUE, start |-> p, nameStart |-> q, end |-> lineEndFrom(s, q)]
    ELSE IF \A n \in (p + 3)..Len(s) : s[n] = "\n" THEN NoMatch
    ELSE [ok |-> TRUE, start |-> p,
          nameStart |-> CHOOSE n \in (p + 3)..Len(s) :
                            s[n] # "\n" /\ \A m \in (n + 1)..Len(s) : s[m] = "\n",
          end |-> CHOOSE n \in (p + 3)..Len(s) :
                      s[n] # "\n" /\ \A m \in (n + 1)..Len(s) : s[m] = "\n"]

\* (?m)^##\s+(.+)$ matched at position p; \s matches a newline as well
sectionPattern(s, p) ==
    IF (p = 1 \/ s[p - 1] = "\n") /\ HasPrefixAt(s, <<"#", "#">>, p)
    THEN headerName(s, p, SkipSpace(s, p + 2))
    ELSE NoMatch

\* FindAllStringSubmatchIndex: the matches from position p on, left to right
RECURSIVE matchesFrom(_, _)
matchesWith(s, p, m) ==
    IF m.ok THEN <<m>> \o matchesFrom(s, m.end + 1) ELSE matchesFrom(s, p + 1)

matchesFrom(s, p) ==
    IF p > Len(s) THEN <<>> ELSE matchesWith(s, p, sectionPattern(s, p))

\* the section of the i-th match
sectionOf(s, ms, i) ==
    [Name |-> SubSeq(s, ms[i].nameStart, ms[i].end),
     Content |-> TrimSpace(SubSeq(s, ms[i].end + 1,
                                  IF i < Len(ms) THEN ms[i + 1].start - 1 ELSE Len(s))),
     Line |-> Cardinality({k \in 1..(ms[i].start - 1) : s[k] = "\n"}) + 1]

RECURSIVE sectionsFrom(_, _, _)
sectionsFrom(s, ms, i) ==
    IF i > Len(ms) THEN <<>> ELSE <<sectionOf(s, ms, i)>> \o sectionsFrom(s, ms, i + 1)

Parse(content) ==
    [Content |-> content, Sections |-> sectionsFrom(content, matchesFrom(content, 1), 1)]

NoSection == [Name |-> <<>>, Content |-> <<>>, Line |-> 0]

\* the section at the first or the last of the positions hits
sectionAt(sections, hits, last) ==
    IF hits = {} THEN [found |-> FALSE, section |-> NoSection]
    ELSE [found |-> TRUE,
          section |-> sections[CHOOSE i \in hits :
                                   \A j \in hits : IF last THEN j <= i ELSE i <= j]]

\* a GetSection where the last section of the name wins
GetSectionLast(doc, name) ==
    sectionAt(doc.Sections,
              {i \in 1..Len(doc.Sections) : ToUpper(doc.Sections[i].Name) = ToUpper(name)},
              TRUE)

GetSection(doc, name) ==
    sectionAt(doc.Sections,
              {i \in 1..Len(doc.Sections) : ToUpper(doc.Sections[i].Name) = ToUpper(name)},
              FALSE)

\* fmt.Sprintf("\n\n## %s\n\n%s", s.Name, s.Content) for each section of a list
RECURSIVE appendSections(_, _)
appendSections(content, ss) ==
    IF Len(ss) = 0 THEN content
    ELSE appendSections(content \o <<"\n", "\n", "#", "#", " ">> \o ss[1].Name
                                \o <<"\n", "\n">> \o ss[1].Content,
                        Tail(ss))

\* MergeDocument once the file is parsed and the missing sections are known
mergeWith(file, missingSections) ==
    IF Len(missingSections) = 0 THEN [file |-> file, written |-> FALSE]
    ELSE [file |-> File(appendSections(file.data, missingSections)), written |-> TRUE]

\* the sections of the template the existing document has not
missingIn(existing, templateSections) ==
    SelectSeq(templateSections, LAMBDA ts : ~GetSection(existing, ts.Name).found)

\* the file at existingPath after MergeDocument, and whether it was written
MergeDocument(file, templateContent) ==
    IF ~file.exists THEN [file |-> File(templateContent), written |-> TRUE]
    ELSE mergeWith(file, missingIn(Parse(file.data), Parse(templateContent).Sections))

RequiredSections ==
       "CONSTITUTION" :> <<<<"P", "R", "I", "N", "C", "I", "P", "L", "E", "S">>,
          <<"C", "O", "N", "S", "T", "R", "A", "I", "N", "T", "S">>,
          <<"N", "O", "N", "-", "G", "O", "A", "L", "S">>,
          <<"D", "E", "F", "I", "N", "I", "T", "I", "O", "N", "S">>>>
    @@ "SPEC" :> <<<<"P", "R", "O", "B", "L", "E", "M">>,
          <<"G", "O", "A", "L", "S">>,
          <<"N", "O", "N", "-", "G", "O", "A", "L", "S">>,
          <<"U", "S", "E", "R", "S">>,
          <<"R", "E", "Q", "U", "I", "R", "E", "M", "E", "N", "T", "S">>,
          <<"A", "C", "C", "E", "P", "T", "A", "N", "C", "E">>,
          <<"E", "D", "G", "E", "-", "C", "A", "S", "E", "S">>,
          <<"O", "P", "E", "N", "-", "Q", "U", "E", "S", "T", "I", "O", "N", "S">>>>
    @@ "PLAN" :> <<<<"S", "U", "M", "M", "A", "R", "Y">>,
          <<"A", "P", "P", "R", "O", "A", "C", "H">>,
          <<"C", "O", "M", "P", "O", "N", "E", "N", "T", "S">>,
          <<"D", "A", "T", "A">>,
          <<"I", "N", "T", "E", "R", "F", "A", "C", "E", "S">>,
          <<"R", "I", "S", "K", "S">>,
          <<"T", "E", "S", "T", "I", "N", "G">>>>
    @@ "TASKS" :> <<<<"T", "A", "S", "K", "S">>,
          <<"D", "E", "P", "E", "N", "D", "E", "N", "C", "I", "E", "S">>,
          <<"N", "O", "T", "E", "S">>>>
    @@ "ANALYSIS" :> <<<<"U", "N", "D", "E", "R", "S", "T", "A", "N", "D", "I", "N", "G">>,
          <<"Q", "U", "E", "S", "T", "I", "O", "N", "S">>,
          <<"R", "E", "S", "E", "A", "R", "C", "H">>,
          <<"C", "L", "A", "R", "I", "F", "I", "C", "A", "T", "I", "O", "N", "S">>,
          <<"A", "S", "S", "U", "M", "P", "T", "I", "O", "N", "S">>,
          <<"R", "I", "S", "K", "S">>>>
    @@ "PROJECT_PROGRESS_SUMMARY" :> <<<<"F", "E", "A", "T", "U", "R", "E", " ", "P", "R", "O", "G", "R", "E", "S", "S", " ", "T", "A", "B", "L", "E">>,
          <<"P", "R", "O", "J", "E", "C", "T", " ", "I", "N", "T", "E", "N", "T">>,
          <<"G", "L", "O", "B", "A", "L", " ", "C", "O", "N", "S", "T", "R", "A", "I", "N", "T", "S">>,
          <<"F", "E", "A", "T", "U", "R", "E", " ", "S", "U", "M", "M", "A", "R", "I", "E", "S">>,
          <<"L", "A", "S", "T", " ", "U", "P", "D", "A", "T", "E", "D">>>>

\* a Validate that stops at the first missing section
ValidateFirstOnly(doc, docType) ==
    LET missing == SelectSeq(RequiredSections[docType],
                             LAMBDA req : \A i \in 1..Len(doc.Sections) :
                                             ToUpper(doc.Sections[i].Name) # ToUpper(req))
    IN  IF missing = <<>> THEN <<>> ELSE <<[Section |-> missing[1]]>>

\* the errors of Validate, one for each required section that is not found
Validate(doc, docType) ==
    LET missing == SelectSeq(RequiredSections[docType],
                             LAMBDA req : \A i \in 1..Len(doc.Sections) :
                                             ToUpper(doc.Sections[i].Name) # ToUpper(req))
    IN  [i \in 1..Len(missing) |-> [Section |-> missing[i]]]

(***************************************************************************)
(* The inputs the operations are given.                                    *)
(***************************************************************************)
\* slugs handed to Create: three valid ones, an upper-case one, the empty one
CreateSlugs == {<<"a">>, <<"b">>, <<"a", "-", "b">>, <<"A">>, <<>>}

\* references handed to EnsureExists
EnsureRefs == {<<"a">>, <<"B">>, <<"A", " ", "b">>, <<"_">>,
               <<"0","0","0","1","-","a">>}

\* directories and plain files made by hand in the specs directory
ForeignDirs == {<<"n","o","t","-","a","-","f","e","a","t","u","r","e">>,
                <<"2","-","c">>, <<"1","0","-","x">>}
ForeignFiles == {<<"0","0","0","1","-","a">>}

\* references handed to Resolve: slugs in either case, a directory name, a
\* directory name in the wrong case, and parts of names
ResolveRefs == {<<"a">>, <<"A">>, <<"A", "-", "B">>, <<"0","0","0","1","-","a">>,
                <<"0","0","0","1","-","A">>, <<"0","0","0","1">>}

\* feature directories made by hand: one whose slug is another's directory
\* name, one with an upper-case slug and an unpadded number
ShadowDirs == {<<"0","-","0","0","0","1","-","a">>, <<"1","-","A">>}

\* what an editor appends to a TASKS.md
TaskPieces == {<<"-"," ","[", " ", "]"," ","a","\n">>,
               <<"-"," ","[", "x", "]"," ","b","\n">>,
               <<"-"," ","[", "X", "]"," ","c">>,
               <<"\n">>,
               ReflectionCompleteMarker \o <<"\n">>}

\* the text an editor or a template puts into SPEC.md and PLAN.md
DocText == <<"#", " ", "D", "\n">>

\* the bytes slugs are typed with: a letter, a digit, the hyphen, an upper-case
\* letter, a blank that becomes a hyphen, a byte that is dropped
SlugAlphabet == {"a", "0", "-", "A", "_", "!"}

\* every string of these bytes up to length n
StringsUpTo(n) ==
    {SubSeq(f, 1, Len(f)) : f \in UNION {[1..k -> SlugAlphabet] : k \in 0..n}}

\* n words joined by hyphens
RECURSIVE Words(_)
Words(n) == IF n = 1 THEN <<"a">> ELSE Words(n - 1) \o <<"-", "a", "0">>

\* the strings given to ValidateSlug and NormalizeSlug
SlugInputs == StringsUpTo(MaxSlugLen) \cup {Words(n) : n \in 1..MaxWordsTried}

\* the lines of the tasks files given to the counters: the three checkbox
\* lines and the plain bullet of the example, two other list forms, a box
\* without blanks after a tab, and a box with a blank before the x
LineForms == {<<"-"," ","[", " ", "]"," ","a">>,
              <<"-"," ","[", "x", "]"," ","b">>,
              <<"-"," ","[", "X", "]"," ","c">>,
              <<"-"," ","p","l","a","i","n"," ","b","u","l","l","e","t">>,
              <<"*"," ","[", " ", "]">>,
              <<"1","."," ","[", " ", "]">>,
              <<"\t","-","[","]">>,
              <<"-"," ","[", " ", "x", "]">>}

\* the lines of a file, a newline between two of them
RECURSIVE JoinLines(_)
JoinLines(ls) ==
    IF Len(ls) = 0 THEN <<>>
    ELSE IF Len(ls) = 1 THEN ls[1]
    ELSE ls[1] \o <<"\n">> \o JoinLines(Tail(ls))

\* tasks files of up to n lines
TaskContents(n) ==
    {JoinLines(ls) : ls \in UNION {[1..k -> LineForms] : k \in 0..n}}

\* the lines of the documents given to Parse: a header, the same header in
\* lower case, a header without a name, a level-3 header, text, an empty line
DocLineForms == {<<"#", "#", " ", "A">>,
                 <<"#", "#", " ", "a">>,
                 <<"#", "#">>,
                 <<"#", "#", "#", " ", "C">>,
                 <<" ", "t", " ">>,
                 <<>>}

\* documents of up to n lines
DocContents(n) ==
    {JoinLines(ls) : ls \in UNION {[1..k -> DocLineForms] : k \in 0..n}}

\* a header line for each name of a list, in lower case when asked
RECURSIVE HeaderLines(_, _)
HeaderLines(names, lower) ==
    IF Len(names) = 0 THEN <<>>
    ELSE <<<<"#", "#", " ">> \o (IF lower THEN ToLower(names[1]) ELSE names[1])>>
         \o HeaderLines(Tail(names), lower)

RECURSIVE Reverse(_)
Reverse(s) == IF Len(s) = 0 THEN <<>> ELSE Reverse(Tail(s)) \o <<Head(s)>>

\* SPEC documents: any of the required sections and one other section, in
\* the order of the template or the reverse, in upper or lower case
SectionDocs ==
    LET all == RequiredSections["SPEC"] \o <<<<"S","U","M","M","A","R","Y">>>>
    IN  {JoinLines(HeaderLines(IF rev THEN Reverse(SelectSeq(all, LAMBDA n : n \in keep))
                                      ELSE SelectSeq(all, LAMBDA n : n \in keep), lower)) :
            keep \in SUBSET {all[i] : i \in 1..Len(all)}, lower \in BOOLEAN, rev \in BOOLEAN}

\* the types documents are validated as
ValidateTypes == {"SPEC", "TASKS"}

\* the names sections are looked up by
SectionNames == {<<"a">>, <<"C">>}

\* the feature references the scaffolding commands are given
CommandRefs == {<<"a">>, <<"B">>}

\* the one feature the commands are run on while its documents are edited by hand
EditedRefs == {<<"B">>}

\* the lines of the files and templates given to MergeDocument: a header, the
\* same header in lower case, a header without a name, text
MergeLineForms == {<<"#", "#", " ", "A">>,
                   <<"#", "#", " ", "a">>,
                   <<"#", "#">>,
                   <<"t">>}

\* files and templates of up to n lines
MergeContents(n) ==
    {JoinLines(ls) : ls \in UNION {[1..k -> MergeLineForms] : k \in 0..n}}

\* slugs two invocations of Create race on: two valid ones and an invalid one
RaceSlugs == {<<"a">>, <<"b">>, <<"A">>}

\* the TASKS.md an editor or an agent first saves
TasksSeeds == {<<>>,
               <<"-", " ", "[", " ", "]", " ", "a", "\n">>,
               <<"-", " ", "[", " ", "]", " ", "a", "\n", "-", " ", "[", "x", "]", " ", "b", "\n">>,
               <<"-", "[", "]", "a", "\n", "\n", "-", " ", "[", "X", "]", " ", "c">>}

\* the naming options a .kit.yaml may set: the default width, a narrower and
\* a wider one, and the default separator, an underscore and a dot
NamingConfigs ==
    {[NumericWidth |-> w, Separator |-> <<s>>] : w \in {1, DefaultWidth, 6}, s \in {"-", "_", "."}}

\* valid slugs a directory is named after
NamingSlugs == {<<"a">>, <<"a", "-", "b">>, <<"a", "1">>, <<"b", "2", "-", "c">>}

\* the arguments of kit complete: none (the interactive list) or one reference
CompleteArgs == {<<>>, <<<<"a">>>>, <<<<"z">>>>}
\* what the user types at the interactive prompt
Selections == {0, 1}

(***************************************************************************)
(* The operations.                                                         *)
(***************************************************************************)
Init ==
    /\ specsExists \in BOOLEAN
    /\ root = {}
    /\ summary = <<>>
    /\ result = Result("init", <<>>, TRUE, "", <<>>)
    /\ assigned = {}

\* the step of an operation that may create a feature directory
registryStep(op, arg, r, val) ==
    /\ r.created => r.feat.Number <= MaxNumber
    /\ specsExists' = r.exists
    /\ root' = r.root
    /\ result' = Result(op, arg, r.ok, r.err, val)
    /\ assigned' = IF r.created THEN assigned \cup {r.feat.Number} ELSE assigned
    /\ UNCHANGED summary

createStep(slug, r) == registryStep("Create", slug, r, r.feat)

Create(slug) == createStep(slug, CreateOutcome(DefaultConfig, slug))

ensureStep(ref, r) ==
    registryStep("EnsureExists", ref, r, [feat |-> r.feat, created |-> r.created])

EnsureExists(ref) == ensureStep(ref, EnsureExistsOutcome(DefaultConfig, ref))

\* the invocations of Create on the slug that are under way
raceOf(slug) ==
    IF /\ result.op = "race"
       /\ result.arg = slug
       /\ \E q \in RaceProcs : result.val.procs[q].pc # "done"
    THEN result.val ELSE NoRace

checkStep(p, slug, race, local) ==
    /\ race.procs[p].pc = "start"
    /\ local.num <= MaxNumber
    /\ result' = Result("race", slug, TRUE, "",
                        [clock |-> race.clock + 1, procs |-> [race.procs EXCEPT ![p] = local]])
    /\ UNCHANGED <<specsExists, root, summary, assigned>>

\* invocation p of Create(slug) runs up to its call of os.MkdirAll
CreateCheck(p, slug) ==
    checkStep(p, slug, raceOf(slug),
              checkWith(DefaultConfig, slug, FindBySlug(slug), NextNumber,
                        raceOf(slug).clock + 1))

mkdirStep(p, local, r) ==
    /\ specsExists' = r.exists
    /\ root' = r.root
    /\ assigned' = IF r.ok THEN assigned \cup {local.num} ELSE assigned
    /\ result' = [result EXCEPT !.val.clock = @ + 1,
                                !.val.procs[p] = madeWith(local, r, result.val.clock + 1)]
    /\ UNCHANGED summary

\* invocation p calls os.MkdirAll and returns
CreateMkdir(p) ==
    /\ result.op = "race"
    /\ result.val.procs[p].pc = "checked"
    /\ mkdirStep(p, result.val.procs[p],
                 mkdirAll(result.val.procs[p].num, result.arg, result.val.procs[p].dirName))

resolveStep(ref, r) ==
    /\ result' = Result("Resolve", ref, r.found,
                        IF r.found THEN "" ELSE "NotFound", r.feat)
    /\ UNCHANGED <<specsExists, root, summary, assigned>>

ResolveCall(ref) == resolveStep(ref, Resolve(ref))

\* a caller holds a string to validate or to normalize
InitSlug ==
    /\ specsExists = TRUE
    /\ root = {}
    /\ summary = <<>>
    /\ result \in {Result("input", s, TRUE, "", <<>>) : s \in SlugInputs}
    /\ assigned = {}

ValidateSlugCall ==
    /\ result.op = "input"
    /\ result' = Result("ValidateSlug", result.arg, ValidateSlug(result.arg),
                        IF ValidateSlug(result.arg) THEN "" ELSE "InvalidSlug", <<>>)
    /\ UNCHANGED <<specsExists, root, summary, assigned>>

normalizeStep(input) ==
    /\ result' = Result("NormalizeSlug", input, TRUE, "", NormalizeSlug(input))
    /\ UNCHANGED <<specsExists, root, summary, assigned>>

\* NormalizeSlug of the string held, or of what NormalizeSlug returned
NormalizeSlugCall ==
    \/ result.op = "input" /\ normalizeStep(result.arg)
    \/ result.op = "NormalizeSlug" /\ normalizeStep(result.val)

\* a tasks file is there to be counted
InitTasks ==
    /\ specsExists = TRUE
    /\ root = {}
    /\ summary = <<>>
    /\ result \in {Result("input", c, TRUE, "", <<>>) : c \in TaskContents(MaxTaskLines)}
    /\ assigned = {}

ParseTaskProgressCall ==
    /\ result.op = "input"
    /\ result' = Result("ParseTaskProgress", result.arg, TRUE, "",
                        ParseTaskProgress(result.arg))
    /\ UNCHANGED <<specsExists, root, summary, assigned>>

parseTaskProgressFromPathCall ==
    /\ result.op = "input"
    /\ result' = Result("parseTaskProgressFromPath", result.arg, TRUE, "",
                        parseTaskProgressFromPath(result.arg))
    /\ UNCHANGED <<specsExists, root, summary, assigned>>

\* a document's content is there to be parsed
InitDocument ==
    /\ specsExists = TRUE
    /\ root = {}
    /\ summary = <<>>
    /\ result \in {Result("input", c, TRUE, "", <<>>) :
                      c \in DocContents(MaxDocLines) \cup SectionDocs}
    /\ assigned = {}

ParseCall ==
    /\ result.op = "input"
    /\ result' = Result("Parse", result.arg, TRUE, "", Parse(result.arg))
    /\ UNCHANGED <<specsExists, root, summary, assigned>>

getSectionStep(doc, name, r) ==
    /\ result' = Result("GetSection", [doc |-> doc, name |-> name], r.found, "", r.section)
    /\ UNCHANGED <<specsExists, root, summary, assigned>>

\* GetSection on the document Parse returned
GetSectionCall(name) ==
    /\ result.op = "Parse"
    /\ getSectionStep(result.val, name, GetSection(result.val, name))

\* a file, or none, and a template for MergeDocument
InitMerge ==
    /\ specsExists = TRUE
    /\ root = {}
    /\ summary = <<>>
    /\ result \in {Result("input", [file |-> f, template |-> t, calls |-> 0], TRUE, "",
                           [file |-> f, written |-> FALSE]) :
                      f \in {NoFile} \cup {File(c) : c \in MergeContents(MaxMergeLines)},
                      t \in MergeContents(MaxMergeLines)}
    /\ assigned = {}

mergeStep(file, template, calls, r) ==
    /\ result' = Result("MergeDocument",
                        [file |-> file, template |-> template, calls |-> calls],
                        TRUE, "", r)
    /\ UNCHANGED <<specsExists, root, summary, assigned>>

\* MergeDocument on the file as the call before left it, twice in a row
MergeDocumentCall ==
    /\ result.op \in {"input", "MergeDocument"}
    /\ result.arg.calls < 2
    /\ mergeStep(result.val.file, result.arg.template, result.arg.calls + 1,
                 MergeDocument(result.val.file, result.arg.template))

\* a naming configuration, a number and a valid slug
InitNaming ==
    /\ specsExists = TRUE
    /\ root = {}
    /\ summary = <<>>
    /\ result \in {Result("input", [cfg |-> c, number |-> n, slug |-> s], TRUE, "", <<>>) :
                      c \in NamingConfigs, n \in 1..MaxDirNumber, s \in NamingSlugs}
    /\ assigned = {}

FormatDirNameCall ==
    /\ result.op = "input"
    /\ result' = Result("FormatDirName", result.arg, TRUE, "",
                        FormatDirName(result.arg.cfg, result.arg.number, result.arg.slug))
    /\ UNCHANGED <<specsExists, root, summary, assigned>>

\* ParseDirName of the name FormatDirName returned
ParseDirNameCall ==
    /\ result.op = "FormatDirName"
    /\ result' = Result("ParseDirName", result.arg, ParseDirName(result.val).ok, "",
                        ParseDirName(result.val))
    /\ UNCHANGED <<specsExists, root, summary, assigned>>

\* one cell of the row printFeatureProgressRow prints for the feature in d
PhaseMarkerCall(d, target) ==
    /\ d \in Names
    /\ ParseDirName(d).ok
    /\ result' = Result("phaseMarker", [current |-> FeatureOf(Entry(d)).Phase, target |-> target],
                        TRUE, "", phaseMarker(FeatureOf(Entry(d)).Phase, target))
    /\ UNCHANGED <<specsExists, root, summary, assigned>>

\* the step of a scaffolding command: the specs directory it leaves, and the
\* progress summary rewritten when the command got that far
commandStep(op, arg, r) ==
    /\ r.created => r.feat.Number <= MaxNumber
    /\ specsExists' = r.exists
    /\ root' = r.root
    /\ summary' = IF r.ok THEN Rollup(r.root) ELSE summary
    /\ result' = Result(op, arg, r.ok, r.err, r.feat.DirName)
    /\ assigned' = IF r.created THEN assigned \cup {r.feat.Number} ELSE assigned

KitSpec(ref) ==
    commandStep("spec", [ref |-> ref, force |-> FALSE, allow |-> FALSE],
                runSpec(EnsureExistsOutcome(DefaultConfig, ref)))

KitOneshot(ref, hasSpec) ==
    commandStep("oneshot", [ref |-> ref, force |-> FALSE, allow |-> FALSE],
                runOneshot(EnsureExistsOutcome(DefaultConfig, ref), hasSpec))

KitScaffold(ref) ==
    commandStep("scaffold", [ref |-> ref, force |-> FALSE, allow |-> FALSE],
                runScaffold(EnsureExistsOutcome(DefaultConfig, ref)))

KitPlan(ref, force, allow) ==
    commandStep("plan", [ref |-> ref, force |-> force, allow |-> allow],
                runPlan(Resolve(ref), force, allow))

KitTasks(ref, force, allow) ==
    commandStep("tasks", [ref |-> ref, force |-> force, allow |-> allow],
                runTasks(Resolve(ref), force, allow))

validateStep(doc, docType, errors) ==
    /\ result' = Result("Validate", [doc |-> doc, type |-> docType],
                        TRUE, "", SubSeq(errors, 1, Len(errors)))
    /\ UNCHANGED <<specsExists, root, summary, assigned>>

\* Validate on the document Parse returned, parsed as of the type given
ValidateCall(docType) ==
    /\ result.op = "Parse"
    /\ validateStep(result.val, docType, Validate(result.val, docType))

ListFeaturesCall ==
    /\ result' = Result("ListFeatures", <<>>, TRUE, "", ListFeatures)
    /\ UNCHANGED <<specsExists, root, summary, assigned>>

NextNumberCall ==
    /\ result' = Result("NextNumber", <<>>, TRUE, "", NextNumber)
    /\ UNCHANGED <<specsExists, root, summary, assigned>>

\* a DeterminePhase that leaves an empty SPEC.md where there was none
DeterminePhaseCallWriting(d) ==
    /\ d \in Names
    /\ result' = Result("DeterminePhase", d, TRUE, "", DeterminePhase(Entry(d)))
    /\ root' = IF Stat(Entry(d), "SPEC.md") THEN root ELSE PutFile(d, "SPEC.md", File(<<>>))
    /\ UNCHANGED <<specsExists, summary, assigned>>

DeterminePhaseCall(d) ==
    /\ d \in Names
    /\ result' = Result("DeterminePhase", d, TRUE, "", DeterminePhase(Entry(d)))
    /\ UNCHANGED <<specsExists, root, summary, assigned>>

\* kit complete [feature] [--force]
\* selectFeatureForCompletion: input is what the user types at the prompt
selectFrom(cands, input) ==
    IF Len(cands) = 0
    THEN [found |-> FALSE, err |-> "NoCandidates", feat |-> NoFeature]
    ELSE IF input \in 1..Len(cands)
    THEN [found |-> TRUE, err |-> "", feat |-> cands[input]]
    ELSE [found |-> FALSE, err |-> "InvalidSelection", feat |-> NoFeature]

resolved(found) ==
    [found |-> found.found, err |-> IF found.found THEN "" ELSE "NotFound",
     feat |-> found.feat]

finishComplete(arg, dirName, r) ==
    /\ root' = r.root
    /\ summary' = r.summary
    /\ result' = Result("complete", arg, r.ok, r.err, dirName)

completeStep(arg, pick, force) ==
    /\ IF pick.found
       THEN finishComplete(arg, pick.feat.DirName,
                           CompleteOutcome(Entry(pick.feat.DirName), force))
       ELSE /\ result' = Result("complete", arg, FALSE, pick.err, <<>>)
            /\ UNCHANGED <<root, summary>>
    /\ UNCHANGED <<specsExists, assigned>>

Complete(args, input, force) ==
    IF Len(args) = 0
    THEN completeStep([args |-> args, force |-> force],
                      selectFrom(Candidates, input), force)
    ELSE /\ input = 0
         /\ completeStep([args |-> args, force |-> force],
                         resolved(Resolve(args[1])), force)

\* appendReflectionMarker applied to the TASKS.md of directory d
AppendReflectionMarkerCall(d) ==
    /\ d \in Names
    /\ Stat(Entry(d), "TASKS.md")
    /\ root' = PutFile(d, "TASKS.md",
                       File(appendReflectionMarker(Entry(d).files["TASKS.md"].data)))
    /\ result' = Result("appendReflectionMarker", d, TRUE, "", <<>>)
    /\ UNCHANGED <<specsExists, summary, assigned>>

(***************************************************************************)
(* What happens to the specs directory from outside the tool.              *)
(***************************************************************************)
Edited == Result("edit", <<>>, TRUE, "", <<>>)

\* an editor, an agent or a scaffolding command writes SPEC.md or PLAN.md
WriteDoc(d, f) ==
    /\ d \in Names
    /\ Entry(d).isDir
    /\ f \in {"SPEC.md", "PLAN.md"}
    /\ root' = PutFile(d, f, File(DocText))
    /\ result' = Edited
    /\ UNCHANGED <<specsExists, summary, assigned>>

\* an editor appends a piece to TASKS.md, creating the file when it is missing
appendTo(d, content, piece) ==
    /\ content = <<>> \/ HasSuffix(content, <<"\n">>)
    /\ Len(ScanLines(content)) < MaxLines
    /\ root' = PutFile(d, "TASKS.md", File(content \o piece))

AppendTasks(d, piece) ==
    /\ d \in Names
    /\ Entry(d).isDir
    /\ appendTo(d, Entry(d).files["TASKS.md"].data, piece)
    /\ result' = Edited
    /\ UNCHANGED <<specsExists, summary, assigned>>

\* an editor saves an empty TASKS.md
TruncateTasks(d) ==
    /\ d \in Names
    /\ Entry(d).isDir
    /\ root' = PutFile(d, "TASKS.md", File(<<>>))
    /\ result' = Edited
    /\ UNCHANGED <<specsExists, summary, assigned>>

RemoveFile(d, f) ==
    /\ d \in Names
    /\ Stat(Entry(d), f)
    /\ root' = PutFile(d, f, NoFile)
    /\ result' = Edited
    /\ UNCHANGED <<specsExists, summary, assigned>>

\* a feature directory is deleted by hand
RemoveDir(d) ==
    /\ d \in Names
    /\ root' = root \ {Entry(d)}
    /\ result' = Edited
    /\ UNCHANGED <<specsExists, summary, assigned>>

\* a directory is made by hand in the specs directory
Mkdir(d) ==
    /\ d \notin Names
    /\ specsExists' = TRUE
    /\ root' = root \cup {Dir(d)}
    /\ result' = Edited
    /\ UNCHANGED <<summary, assigned>>

\* a plain file is put by hand into the specs directory
Touch(d) ==
    /\ d \notin Names
    /\ specsExists' = TRUE
    /\ root' = root \cup {PlainFile(d)}
    /\ result' = Edited
    /\ UNCHANGED <<summary, assigned>>

\* the content with line i replaced, line ends as they were
withLine(content, lines, i, line) ==
    JoinLines([lines EXCEPT ![i] = line])
        \o (IF HasSuffix(content, <<"\n">>) THEN <<"\n">> ELSE <<>>)

\* the checkbox line with an x between its brackets
checkedLine(line, b) ==
    SubSeq(line, 1, b) \o <<"x">> \o SubSeq(line, SkipSpace(line, b + 1), Len(line))

\* the checked line with a blank between its brackets
uncheckedLine(line, b) ==
    SubSeq(line, 1, b) \o <<" ">> \o SubSeq(line, b + 2, Len(line))

\* where the bracket of a checkbox line opens
BoxAt(line) == SkipSpace(line, SkipSpace(line, 1) + 1)

\* the content without the piece that starts at position i
cutAt(content, i, piece) ==
    SubSeq(content, 1, i - 1) \o SubSeq(content, i + Len(piece), Len(content))

\* where the piece first occurs in the content
firstAt(content, piece) ==
    CHOOSE k \in 1..Len(content) :
        /\ HasPrefixAt(content, piece, k)
        /\ \A m \in 1..(k - 1) : ~HasPrefixAt(content, piece, m)

\* the content without the marker: without its line and the empty line before
\* it where it has them, without its bytes where it has not
withoutMarker(content) ==
    IF Contains(content, <<"\n">> \o ReflectionCompleteMarker \o <<"\n">>)
    THEN cutAt(content, firstAt(content, <<"\n">> \o ReflectionCompleteMarker \o <<"\n">>),
               <<"\n">> \o ReflectionCompleteMarker \o <<"\n">>)
    ELSE cutAt(content, firstAt(content, ReflectionCompleteMarker), ReflectionCompleteMarker)

Forward(kind, d) == Result("forward", [kind |-> kind, dir |-> d], TRUE, "", <<>>)
Backward(kind, d) == Result("backward", [kind |-> kind, dir |-> d], TRUE, "", <<>>)

\* PLAN.md is written where there was none
CreatePlan(d) ==
    /\ d \in Names
    /\ Entry(d).isDir
    /\ ~Stat(Entry(d), "PLAN.md")
    /\ root' = PutFile(d, "PLAN.md", File(DocText))
    /\ result' = Forward("plan", d)
    /\ UNCHANGED <<specsExists, summary, assigned>>

\* TASKS.md is written where there was none
CreateTasks(d, content) ==
    /\ d \in Names
    /\ Entry(d).isDir
    /\ ~Stat(Entry(d), "TASKS.md")
    /\ root' = PutFile(d, "TASKS.md", File(content))
    /\ result' = Forward("tasks", d)
    /\ UNCHANGED <<specsExists, summary, assigned>>

boxStep(d, content, lines, i, line) ==
    /\ root' = PutFile(d, "TASKS.md", File(withLine(content, lines, i, line)))
    /\ UNCHANGED <<specsExists, summary, assigned>>

\* an unchecked checkbox line of TASKS.md is checked
CheckBox(d, i) ==
    /\ d \in Names
    /\ Stat(Entry(d), "TASKS.md")
    /\ i \in 1..Len(ScanLines(Entry(d).files["TASKS.md"].data))
    /\ incompletePattern(ScanLines(Entry(d).files["TASKS.md"].data)[i])
    /\ boxStep(d, Entry(d).files["TASKS.md"].data, ScanLines(Entry(d).files["TASKS.md"].data), i,
               checkedLine(ScanLines(Entry(d).files["TASKS.md"].data)[i],
                           BoxAt(ScanLines(Entry(d).files["TASKS.md"].data)[i])))
    /\ result' = Forward("check", d)

\* a checked checkbox line of TASKS.md is unchecked
UncheckBox(d, i) ==
    /\ d \in Names
    /\ Stat(Entry(d), "TASKS.md")
    /\ i \in 1..Len(ScanLines(Entry(d).files["TASKS.md"].data))
    /\ completePattern(ScanLines(Entry(d).files["TASKS.md"].data)[i])
    /\ boxStep(d, Entry(d).files["TASKS.md"].data, ScanLines(Entry(d).files["TASKS.md"].data), i,
               uncheckedLine(ScanLines(Entry(d).files["TASKS.md"].data)[i],
                             BoxAt(ScanLines(Entry(d).files["TASKS.md"].data)[i])))
    /\ result' = Backward("uncheck", d)

\* the completion marker is appended to TASKS.md
AppendMarker(d) ==
    /\ d \in Names
    /\ Stat(Entry(d), "TASKS.md")
    /\ ~Contains(Entry(d).files["TASKS.md"].data, ReflectionCompleteMarker)
    /\ root' = PutFile(d, "TASKS.md",
                       File(appendReflectionMarker(Entry(d).files["TASKS.md"].data)))
    /\ result' = Forward("marker", d)
    /\ UNCHANGED <<specsExists, summary, assigned>>

\* the completion marker is deleted from TASKS.md
RemoveMarker(d) ==
    /\ d \in Names
    /\ Stat(Entry(d), "TASKS.md")
    /\ Contains(Entry(d).files["TASKS.md"].data, ReflectionCompleteMarker)
    /\ root' = PutFile(d, "TASKS.md", File(withoutMarker(Entry(d).files["TASKS.md"].data)))
    /\ result' = Backward("marker", d)
    /\ UNCHANGED <<specsExists, summary, assigned>>

\* TASKS.md is deleted
RemoveTasks(d) ==
    /\ d \in Names
    /\ Stat(Entry(d), "TASKS.md")
    /\ root' = PutFile(d, "TASKS.md", NoFile)
    /\ result' = Backward("delete", d)
    /\ UNCHANGED <<specsExists, summary, assigned>>

(***************************************************************************)
(* Specifications.                                                         *)
(***************************************************************************)
\* one feature, its documents, phase inference and kit complete
NextPhase ==
    \/ Create(<<"a">>)
    \/ \E d \in Names, f \in FileNames : WriteDoc(d, f)
    \/ \E d \in Names, piece \in TaskPieces : AppendTasks(d, piece)
    \/ \E d \in Names : TruncateTasks(d)
    \/ \E d \in Names, f \in FileNames : RemoveFile(d, f)
    \/ \E d \in Names : DeterminePhaseCall(d)
    \/ ListFeaturesCall
    \/ \E args \in CompleteArgs, input \in Selections, force \in BOOLEAN :
           Complete(args, input, force)
    \/ \E d \in Names : AppendReflectionMarkerCall(d)

SpecPhase == Init /\ [][NextPhase]_vars

\* the registry, with directories made and deleted by hand
NextRegistry ==
    \/ \E slug \in CreateSlugs : Create(slug)
    \/ \E ref \in EnsureRefs : EnsureExists(ref)
    \/ \E d \in Names : RemoveDir(d)
    \/ \E d \in ForeignDirs : Mkdir(d)
    \/ \E d \in ForeignFiles : Touch(d)
    \/ ListFeaturesCall
    \/ NextNumberCall

SpecRegistry == Init /\ [][NextRegistry]_vars

\* the registry as Create and EnsureExists alone leave it
NextCreate ==
    \/ \E slug \in CreateSlugs : Create(slug)
    \/ \E ref \in EnsureRefs : EnsureExists(ref)
    \/ ListFeaturesCall

SpecCreate == Init /\ [][NextCreate]_vars

\* references resolved against features made by Create and by hand
NextResolve ==
    \/ \E slug \in CreateSlugs : Create(slug)
    \/ \E ref \in ResolveRefs : ResolveCall(ref)
    \/ \E d \in ShadowDirs : Mkdir(d)
    \/ \E d \in ForeignFiles : Touch(d)
    \/ \E d \in Names : RemoveDir(d)

SpecResolve == Init /\ [][NextResolve]_vars

\* the scaffolding commands, with documents edited and deleted by hand
NextCommands ==
    \/ \E ref \in EditedRefs : KitSpec(ref)
    \/ \E ref \in EditedRefs, hasSpec \in BOOLEAN : KitOneshot(ref, hasSpec)
    \/ \E ref \in EditedRefs : KitScaffold(ref)
    \/ \E ref \in EditedRefs, force \in BOOLEAN, allow \in BOOLEAN :
           KitPlan(ref, force, allow)
    \/ \E ref \in EditedRefs, force \in BOOLEAN, allow \in BOOLEAN :
           KitTasks(ref, force, allow)
    \/ \E d \in Names, f \in FileNames : WriteDoc(d, f)
    \/ \E d \in Names, f \in FileNames : RemoveFile(d, f)

SpecCommands == Init /\ [][NextCommands]_vars

\* the commands alone, from an empty specs directory, allow_out_of_order off
NextPipeline ==
    \/ \E ref \in CommandRefs : KitSpec(ref)
    \/ \E ref \in CommandRefs, hasSpec \in BOOLEAN : KitOneshot(ref, hasSpec)
    \/ \E ref \in CommandRefs : KitScaffold(ref)
    \/ \E ref \in CommandRefs, force \in BOOLEAN : KitPlan(ref, force, FALSE)
    \/ \E ref \in CommandRefs, force \in BOOLEAN : KitTasks(ref, force, FALSE)
    \/ \E args \in CompleteArgs, input \in Selections, force \in BOOLEAN :
           Complete(args, input, force)

SpecPipeline == Init /\ [][NextPipeline]_vars

\* kit init run twice over a file and a template
NextMerge == MergeDocumentCall

SpecMerge == InitMerge /\ [][NextMerge]_vars

\* Create called alone, and two invocations of Create interleaved step by step
NextRace ==
    \/ \E slug \in RaceSlugs : Create(slug)
    \/ \E p \in RaceProcs, slug \in RaceSlugs : CreateCheck(p, slug)
    \/ \E p \in RaceProcs : CreateMkdir(p)

SpecRace == Init /\ [][NextRace]_vars

\* one feature whose documents are edited forward and backward, and its phase
NextEdits ==
    \/ Create(<<"a">>)
    \/ \E d \in Names : CreatePlan(d)
    \/ \E d \in Names, content \in TasksSeeds : CreateTasks(d, content)
    \/ \E d \in Names, i \in 1..MaxEditLines : CheckBox(d, i)
    \/ \E d \in Names : AppendMarker(d)
    \/ \E d \in Names, i \in 1..MaxEditLines : UncheckBox(d, i)
    \/ \E d \in Names : RemoveMarker(d)
    \/ \E d \in Names : RemoveTasks(d)
    \/ \E d \in Names : DeterminePhaseCall(d)

SpecEdits == Init /\ [][NextEdits]_vars

\* a directory name written and read back
NextNaming ==
    \/ FormatDirNameCall
    \/ ParseDirNameCall

SpecNaming == InitNaming /\ [][NextNaming]_vars

\* one feature whose documents are filled in, and the rows of its table
NextProgress ==
    \/ Create(<<"a">>)
    \/ \E d \in Names : CreatePlan(d)
    \/ \E d \in Names, content \in TasksSeeds : CreateTasks(d, content)
    \/ \E d \in Names, i \in 1..MaxEditLines : CheckBox(d, i)
    \/ \E d \in Names : AppendMarker(d)
    \/ \E d \in Names, target \in RowTargets : PhaseMarkerCall(d, target)

SpecProgress == Init /\ [][NextProgress]_vars

\* the slug functions on the strings a caller may hold
NextSlug ==
    \/ ValidateSlugCall
    \/ NormalizeSlugCall

SpecSlug == InitSlug /\ [][NextSlug]_vars

\* the two task counters on tasks files
NextTasks ==
    \/ ParseTaskProgressCall
    \/ parseTaskProgressFromPathCall

SpecTasks == InitTasks /\ [][NextTasks]_vars

\* documents parsed and their sections looked up
NextDocument ==
    \/ ParseCall
    \/ \E name \in SectionNames : GetSectionCall(name)
    \/ \E docType \in ValidateTypes : ValidateCall(docType)

SpecDocument == InitDocument /\ [][NextDocument]_vars

(***************************************************************************)
(* What the claims are stated with.                                        *)
(***************************************************************************)
entryIn(entries, name) == CHOOSE e \in entries : e.name = name
tasksIn(entries, name) == entryIn(entries, name).files["TASKS.md"].data

\* the places where sub occurs in s
Occurrences(s, sub) == Cardinality({i \in 1..Len(s) : HasPrefixAt(s, sub, i)})

HasIncompleteLine(content) ==
    \E i \in 1..Len(ScanLines(content)) : incompletePattern(ScanLines(content)[i])

RECURSIVE TrimRightNewlines(_)
TrimRightNewlines(s) ==
    IF Len(s) > 0 /\ s[Len(s)] = "\n" THEN TrimRightNewlines(SubSeq(s, 1, Len(s) - 1))
    ELSE s

MarkerBlock == <<"\n">> \o ReflectionCompleteMarker \o <<"\n">>

\* the numbers of the directories of the specs directory that are named as features
FeatureNumbers(entries) ==
    {ParseDirName(e.name).number : e \in {x \in entries : x.isDir /\ ParseDirName(x.name).ok}}

MaxOf(S) == CHOOSE n \in S : \A m \in S : m <= n

\* the step made a feature directory's number
Created(r) ==
    \/ r.op = "Create" /\ r.ok
    \/ r.op = "EnsureExists" /\ r.ok /\ r.val.created

NumberOf(r) == IF r.op = "Create" THEN r.val.Number ELSE r.val.feat.Number

\* the table of section 4.5 of the specification
TablePhase(hasPlan, hasTasks, total, complete, marker) ==
    IF ~hasTasks THEN (IF hasPlan THEN PhasePlan ELSE PhaseSpec)
    ELSE IF total = 0 THEN PhaseTasks
    ELSE IF complete < total THEN PhaseImplement
    ELSE IF marker THEN PhaseComplete
    ELSE PhaseReflect

TableOf(e) ==
    TablePhase(e.files["PLAN.md"].exists, e.files["TASKS.md"].exists,
               ParseTaskProgress(e.files["TASKS.md"].data).Total,
               ParseTaskProgress(e.files["TASKS.md"].data).Complete,
               Contains(e.files["TASKS.md"].data, ReflectionCompleteMarker))

(***************************************************************************)
(* The claims.                                                             *)
(***************************************************************************)
\* C1: DeterminePhase returns the phase the table gives for the documents of
\* the feature directory: spec without PLAN.md and TASKS.md, plan with PLAN.md
\* alone, and with TASKS.md the phase its checkbox counts and marker give,
\* whatever PLAN.md and SPEC.md are.
C1_PhaseTable ==
    result.op = "DeterminePhase" =>
        /\ result.val = TableOf(Entry(result.arg))
        /\ \A e \in root : DeterminePhase(e) = TableOf(e)

C1_Witness ==
    /\ result.op = "DeterminePhase"
    /\ result.val = PhaseComplete
    /\ ~Stat(Entry(result.arg), "PLAN.md")

\* C2: a call of DeterminePhase or of ListFeatures leaves the specs directory
\* and the progress summary as they were, and a call of DeterminePhase right
\* after one for the same directory returns the same phase.
C2_PhaseReadOnly ==
    [][/\ result'.op \in {"DeterminePhase", "ListFeatures"} =>
              /\ root' = root
              /\ specsExists' = specsExists
              /\ summary' = summary
       /\ (/\ result.op = "DeterminePhase"
           /\ result'.op = "DeterminePhase"
           /\ result'.arg = result.arg) => result'.val = result.val]_vars

C2_Witness ==
    /\ result.op = "DeterminePhase"
    /\ Stat(Entry(result.arg), "TASKS.md")
    /\ ~Stat(Entry(result.arg), "SPEC.md")

\* C3: when kit complete without --force returns success for a feature that
\* has a TASKS.md, the phase of the feature is complete.
C3_CompleteMakesComplete ==
    (/\ result.op = "complete"
     /\ ~result.arg.force
     /\ result.ok) => DeterminePhase(Entry(result.val)) = PhaseComplete

\* C4: kit complete on a TASKS.md with an incomplete checkbox line returns an
\* error and writes nothing without --force, and appends the marker with it.
C4_IncompleteNeedsForce ==
    [][(/\ result'.op = "complete"
        /\ result'.val # <<>>
        /\ Stat(Entry(result'.val), "TASKS.md")
        /\ HasIncompleteLine(tasksIn(root, result'.val))) =>
            IF result'.arg.force
            THEN /\ result'.ok
                 /\ Contains(tasksIn(root', result'.val), ReflectionCompleteMarker)
            ELSE /\ ~result'.ok
                 /\ root' = root
                 /\ summary' = summary]_vars

C4_Witness ==
    /\ result.op = "complete"
    /\ ~result.arg.force
    /\ result.err = "TasksIncomplete"
    /\ root # {}

\* C5: appendReflectionMarker on a file without the marker leaves exactly one
\* occurrence of it, and on a file with the marker leaves the file as it was.
C5_MarkerOnce ==
    [][result'.op = "appendReflectionMarker" =>
          /\ Occurrences(tasksIn(root, result'.arg), ReflectionCompleteMarker) = 0
                => Occurrences(tasksIn(root', result'.arg), ReflectionCompleteMarker) = 1
          /\ Occurrences(tasksIn(root, result'.arg), ReflectionCompleteMarker) > 0
                => root' = root]_vars

C5_Witness ==
    /\ result.op = "appendReflectionMarker"
    /\ Occurrences(tasksIn(root, result.arg), ReflectionCompleteMarker) = 1

\* C6 as claimed: without the marker, the new file is the content with exactly
\* one trailing newline, a blank line, the marker and a newline.
C6_ExactlyOneNewline ==
    [][(/\ result'.op = "appendReflectionMarker"
        /\ ~Contains(tasksIn(root, result'.arg), ReflectionCompleteMarker)) =>
            tasksIn(root', result'.arg)
                = TrimRightNewlines(tasksIn(root, result'.arg)) \o <<"\n">> \o MarkerBlock]_vars

\* C6 as amended: without the marker, the new file is the content, kept whole
\* with every newline it ends with, then a newline only when the content did
\* not end with one, then a blank line, the marker and a newline.
C6_ContentKept ==
    [][(/\ result'.op = "appendReflectionMarker"
        /\ ~Contains(tasksIn(root, result'.arg), ReflectionCompleteMarker)) =>
            /\ HasPrefixAt(tasksIn(root', result'.arg), tasksIn(root, result'.arg), 1)
            /\ HasSuffix(tasksIn(root', result'.arg), <<"\n">> \o MarkerBlock)
            /\ Len(tasksIn(root', result'.arg))
                   = Len(tasksIn(root, result'.arg)) + Len(MarkerBlock)
                     + (IF HasSuffix(tasksIn(root, result'.arg), <<"\n">>) THEN 0 ELSE 1)]_vars

C6_Witness ==
    /\ result.op = "appendReflectionMarker"
    /\ HasSuffix(tasksIn(root, result.arg), <<"b", "\n", "\n">> \o MarkerBlock)
    /\ Occurrences(tasksIn(root, result.arg), ReflectionCompleteMarker) = 1

\* C7: NextNumber returns 1 when the specs directory has no feature directory
\* or does not exist, and else one more than the largest number, gaps or not.
C7_NextNumber ==
    result.op = "NextNumber" =>
        /\ result.val = IF FeatureNumbers(root) = {} THEN 1
                        ELSE MaxOf(FeatureNumbers(root)) + 1
        /\ ~specsExists => result.val = 1

C7_Witness ==
    /\ result.op = "NextNumber"
    /\ FeatureNumbers(root) # {}
    /\ result.val > Cardinality(FeatureNumbers(root)) + 1
    /\ result.val <= MaxNumber + 1

\* C8 as claimed: a number Create has assigned is never assigned again.
C8_NeverReused ==
    [][Created(result') => NumberOf(result') \notin assigned]_vars

\* C8 as amended: the number Create assigns is one more than the largest
\* number among the feature directories there at that moment (1 when there is
\* none), so it never fills a gap below a directory that exists.
C8_NeverBackfills ==
    [][Created(result') =>
          /\ NumberOf(result') = IF FeatureNumbers(root) = {} THEN 1
                                 ELSE MaxOf(FeatureNumbers(root)) + 1
          /\ \A n \in FeatureNumbers(root) : n < NumberOf(result')]_vars

C8_Witness ==
    /\ Created(result)
    /\ \E n \in assigned : n < NumberOf(result) /\ n \notin FeatureNumbers(root)

\* C9: after any Create and EnsureExists calls from an empty specs directory,
\* no two listed features have the same number or, letter case aside, the
\* same slug.
C9_UniqueFeatures ==
    \A i, j \in 1..Len(ListFeatures) :
        i # j => /\ ListFeatures[i].Number # ListFeatures[j].Number
                 /\ ToLower(ListFeatures[i].Slug) # ToLower(ListFeatures[j].Slug)

C9_Witness ==
    /\ Len(ListFeatures) = 3
    /\ result.op = "EnsureExists"
    /\ result.ok
    /\ ~result.val.created

\* ^(\d+)-(.+)$ read as a statement: k digits, a hyphen, a rest without newline
MatchesAt(name, k) ==
    /\ k >= 1
    /\ Len(name) >= k + 2
    /\ \A i \in 1..k : IsDigit(name[i])
    /\ name[k + 1] = "-"
    /\ \A i \in (k + 2)..Len(name) : name[i] # "\n"

RECURSIVE Power10(_)
Power10(n) == IF n = 0 THEN 1 ELSE 10 * Power10(n - 1)

RECURSIVE Sum(_, _)
Sum(f, n) == IF n = 0 THEN 0 ELSE f[n] + Sum(f, n - 1)

\* the value of the first k bytes of name read as a decimal number
DecimalValue(name, k) ==
    Sum([i \in 1..k |-> DigitValue(name[i]) * Power10(k - i)], k)

\* C10: ListFeatures returns the directories of the specs directory whose
\* names match ^(\d+)-(.+)$, each once, with the value of the digits as number
\* and the rest as slug, in ascending order of number; plain files and other
\* directories are left out.
C10_Listing ==
    result.op = "ListFeatures" =>
        /\ {result.val[i].DirName : i \in 1..Len(result.val)}
              = {e.name : e \in {x \in root :
                                   x.isDir /\ \E k \in 1..Len(x.name) : MatchesAt(x.name, k)}}
        /\ \A i, j \in 1..Len(result.val) :
              i # j => result.val[i].DirName # result.val[j].DirName
        /\ \A i \in 1..Len(result.val) :
              \E k \in 1..Len(result.val[i].DirName) :
                  /\ MatchesAt(result.val[i].DirName, k)
                  /\ result.val[i].Number = DecimalValue(result.val[i].DirName, k)
                  /\ result.val[i].Slug
                        = SubSeq(result.val[i].DirName, k + 2, Len(result.val[i].DirName))
        /\ \A i, j \in 1..Len(result.val) :
              i < j => result.val[i].Number <= result.val[j].Number

C10_Witness ==
    /\ result.op = "ListFeatures"
    /\ Len(result.val) >= 3
    /\ \E e \in root : ~e.isDir
    /\ \E e \in root : e.isDir /\ ~ParseDirName(e.name).ok
    /\ \E i, j \in 1..Len(result.val) :
          i < j /\ StrLess(result.val[j].DirName, result.val[i].DirName)

\* the directories of the specs directory that are named as features
FeatureDirs(entries) ==
    {e \in entries : e.isDir /\ \E k \in 1..Len(e.name) : MatchesAt(e.name, k)}

\* the part of a feature directory's name after the digits and the hyphen
SlugOfName(name) ==
    SubSeq(name, (CHOOSE k \in 1..Len(name) : MatchesAt(name, k)) + 2, Len(name))

\* equal but for the case of the letters
SameFold(a, b) ==
    /\ Len(a) = Len(b)
    /\ \A i \in 1..Len(a) : ToLowerChar(a[i]) = ToLowerChar(b[i])

\* the names of the feature directories whose slug is ref, letter case aside
NamesWithSlug(entries, ref) ==
    {e.name : e \in {x \in FeatureDirs(entries) : SameFold(SlugOfName(x.name), ref)}}

C12_RoundTrip ==
    [][(/\ result.op = "Create"
        /\ result.ok
        /\ result'.op = "Resolve"
        /\ \/ SameFold(result'.arg, result.arg)
           \/ result'.arg = result.val.DirName)
       => /\ result'.ok
          /\ result'.val.Number = result.val.Number
          /\ result'.val.Slug = result.val.Slug
          /\ result'.val.DirName = result.val.DirName]_vars

C12_Witness ==
    /\ result.op = "Resolve"
    /\ result.arg = <<"A", "-", "B">>
    /\ result.ok
    /\ result.val.Slug = <<"a", "-", "b">>
    /\ result.val.Number \in assigned
    /\ result.val.Number > 1

\* the features of the listing whose slug is the slug given, letter case aside
Taken(slug) == NamesWithSlug(root, slug)

\* C13: a Create that returns an error leaves the specs directory as it was;
\* an invalid slug gives InvalidSlug, and a valid slug that is the slug of a
\* feature, letter case aside, gives AlreadyExists with that feature.
C13_CreateErrors ==
    [][result'.op = "Create" =>
          /\ ~result'.ok => root' = root /\ specsExists' = specsExists
          /\ ~ValidateSlug(result'.arg) =>
                 ~result'.ok /\ result'.err = "InvalidSlug"
          /\ (ValidateSlug(result'.arg) /\ Taken(result'.arg) # {}) =>
                 /\ ~result'.ok
                 /\ result'.err = "AlreadyExists"
                 /\ result'.val.DirName \in Taken(result'.arg)]_vars

C13_Witness ==
    /\ result.op = "Create"
    /\ result.err = "AlreadyExists"
    /\ result.arg = <<"a">>
    /\ result.val.DirName = <<"1", "-", "A">>
    /\ assigned # {}

\* the reference names a feature of the specs directory
Resolves(entries, ref) ==
    \/ \E e \in FeatureDirs(entries) : e.name = ref
    \/ NamesWithSlug(entries, ref) # {}

\* C14 as claimed: EnsureExists returns the feature the reference resolves to
\* and changes nothing; when the reference does not resolve and its normalized
\* form is not a valid slug it returns InvalidSlug and creates nothing; in
\* every other case it creates the feature and returns it as created (a
\* failure of the file system aside).
C14_EnsureExists ==
    [][result'.op = "EnsureExists" =>
          IF Resolves(root, result'.arg)
          THEN /\ result'.ok
               /\ ~result'.val.created
               /\ root' = root
          ELSE IF ~ValidateSlug(NormalizeSlug(result'.arg))
          THEN /\ ~result'.ok
               /\ result'.err = "InvalidSlug"
               /\ root' = root
          ELSE \/ /\ result'.ok
                  /\ result'.val.created
                  /\ result'.val.feat.Slug = NormalizeSlug(result'.arg)
                  /\ result'.val.feat.DirName \in {e.name : e \in root'}
               \/ result'.err = "IOFailure"]_vars

\* ^[a-z][a-z0-9]*(-[a-z0-9]+)*$ read as a statement: a letter first, then
\* letters, digits and hyphens, no hyphen last and no two hyphens in a row
SlugGrammar(s) ==
    /\ Len(s) >= 1
    /\ IsLower(s[1])
    /\ \A i \in 1..Len(s) : IsLower(s[i]) \/ IsDigit(s[i]) \/ s[i] = "-"
    /\ s[Len(s)] # "-"
    /\ \A i \in 1..(Len(s) - 1) : ~(s[i] = "-" /\ s[i + 1] = "-")

\* the words between the hyphens
HyphenWords(s) == Cardinality({i \in 1..Len(s) : s[i] = "-"}) + 1

\* C15: ValidateSlug succeeds exactly for the strings of the slug grammar
\* with at most 5 words; it fails for the empty string, for a byte outside
\* [a-z0-9-], for a first byte that is not a letter, for a hyphen first, last
\* or doubled, and for 6 words or more.
C15_ValidateSlug ==
    result.op = "ValidateSlug" =>
        /\ result.ok <=> (SlugGrammar(result.arg) /\ HyphenWords(result.arg) <= 5)
        /\ result.arg = <<>> => ~result.ok
        /\ (\E i \in 1..Len(result.arg) :
               ~(IsLower(result.arg[i]) \/ IsDigit(result.arg[i]) \/ result.arg[i] = "-"))
              => ~result.ok
        /\ (result.arg # <<>> /\ ~IsLower(result.arg[1])) => ~result.ok
        /\ (result.arg # <<>> /\ result.arg[Len(result.arg)] = "-") => ~result.ok
        /\ Contains(result.arg, <<"-", "-">>) => ~result.ok
        /\ HyphenWords(result.arg) >= 6 => ~result.ok

C15_Witness ==
    /\ result.op = "ValidateSlug"
    /\ SlugGrammar(result.arg)
    /\ HyphenWords(result.arg) = 6
    /\ ~result.ok

\* C16: NormalizeSlug of what NormalizeSlug returned is what it returned.
C16_Idempotent ==
    [][(result.op = "NormalizeSlug" /\ result'.op = "NormalizeSlug")
          => (result'.arg = result.val /\ result'.val = result.val)]_vars

C16_Witness ==
    /\ result.op = "NormalizeSlug"
    /\ result.arg = <<"a", "-", "a">>
    /\ result.val = result.arg

\* C17: NormalizeSlug returns a slug that passes ValidateSlug as it was given.
C17_ValidFixedPoint ==
    (result.op = "NormalizeSlug" /\ ValidateSlug(result.arg))
        => result.val = result.arg

C17_Witness ==
    /\ result.op = "NormalizeSlug"
    /\ ValidateSlug(result.arg)
    /\ HyphenWords(result.arg) = 5
    /\ \E i \in 1..Len(result.arg) : IsDigit(result.arg[i])
    /\ result.val = result.arg

\* a line of s starts at position i
LineStart(s, i) == i = 1 \/ s[i - 1] = "\n"

\* white space within a line from position i to position j
BlankRun(s, i, j) == \A k \in i..j : IsSpace(s[k]) /\ s[k] # "\n"

\* ^\s*-\s*\[\s*\] read as a statement about the line that starts at i
UncheckedAt(s, i) ==
    \E a \in i..Len(s) :
        /\ s[a] = "-"
        /\ BlankRun(s, i, a - 1)
        /\ \E b \in (a + 1)..Len(s) :
              /\ s[b] = "["
              /\ BlankRun(s, a + 1, b - 1)
              /\ \E c \in (b + 1)..Len(s) : s[c] = "]" /\ BlankRun(s, b + 1, c - 1)

\* ^\s*-\s*\[[xX]\] read as a statement about the line that starts at i
CheckedAt(s, i) ==
    \E a \in i..Len(s) :
        /\ s[a] = "-"
        /\ BlankRun(s, i, a - 1)
        /\ \E b \in (a + 1)..(Len(s) - 2) :
              /\ s[b] = "["
              /\ BlankRun(s, a + 1, b - 1)
              /\ s[b + 1] \in {"x", "X"}
              /\ s[b + 2] = "]"

UncheckedLines(s) == {i \in 1..Len(s) : LineStart(s, i) /\ UncheckedAt(s, i)}
CheckedLines(s) == {i \in 1..Len(s) : LineStart(s, i) /\ CheckedAt(s, i)}

\* C18: both counters give, as total, the number of lines that match one of
\* the two checkbox patterns and, as complete, the number that match the
\* second; complete is at most total, lines of other forms are not counted,
\* and a file with no checkbox line gives total 0.
C18_TaskCounts ==
    result.op \in {"ParseTaskProgress", "parseTaskProgressFromPath"} =>
        /\ result.val.Total
              = Cardinality(UncheckedLines(result.arg) \cup CheckedLines(result.arg))
        /\ result.val.Complete = Cardinality(CheckedLines(result.arg))
        /\ result.val.Complete <= result.val.Total
        /\ (UncheckedLines(result.arg) \cup CheckedLines(result.arg) = {})
              => result.val.Total = 0

C18_Witness ==
    /\ result.op = "ParseTaskProgress"
    /\ result.arg = JoinLines(<<<<"-"," ","[", " ", "]"," ","a">>,
                                <<"-"," ","[", "x", "]"," ","b">>,
                                <<"-"," ","[", "X", "]"," ","c">>,
                                <<"-"," ","p","l","a","i","n"," ","b","u","l","l","e","t">>>>)
    /\ result.val.Total = 3
    /\ result.val.Complete = 2

\* the last position of the line that starts at i, read as a statement
LineEndOf(s, i) ==
    CHOOSE e \in (i - 1)..Len(s) :
        /\ e = Len(s) \/ s[e + 1] = "\n"
        /\ \A k \in i..e : s[k] # "\n"

\* a level-2 header line starts at i: ## at the start of a line, white space
\* of that line, and a name on that line
HeaderLineAt(s, i) ==
    /\ LineStart(s, i)
    /\ HasPrefixAt(s, <<"#", "#">>, i)
    /\ i + 3 <= LineEndOf(s, i)
    /\ IsSpace(s[i + 2])

HeaderStarts(s) == {i \in 1..Len(s) : HeaderLineAt(s, i)}

\* where the header text of the header line at i starts
NameStartOf(s, i) ==
    CHOOSE n \in (i + 3)..LineEndOf(s, i) :
        /\ BlankRun(s, i + 2, n - 1)
        /\ ~IsSpace(s[n]) \/ n = LineEndOf(s, i)

\* the n-th smallest member of a set of numbers
NthOf(S, n) == CHOOSE x \in S : Cardinality({y \in S : y < x}) = n - 1

\* the position before the header line that follows the n-th, or the end
SectionEnd(s, n) ==
    IF n < Cardinality(HeaderStarts(s)) THEN NthOf(HeaderStarts(s), n + 1) - 1 ELSE Len(s)

\* C19 as claimed: Parse yields one section per level-2 header line, in the
\* order of the document, named by the header text, with the trimmed text
\* between its header line and the next header line or the end as content;
\* a document without a header line has no sections.
C19_Parse ==
    result.op = "Parse" =>
        /\ Len(result.val.Sections) = Cardinality(HeaderStarts(result.arg))
        /\ \A n \in 1..Len(result.val.Sections) :
              n <= Cardinality(HeaderStarts(result.arg)) =>
                 /\ result.val.Sections[n].Name
                       = SubSeq(result.arg, NameStartOf(result.arg, NthOf(HeaderStarts(result.arg), n)),
                                LineEndOf(result.arg, NthOf(HeaderStarts(result.arg), n)))
                 /\ result.val.Sections[n].Content
                       = TrimSpace(SubSeq(result.arg,
                                          LineEndOf(result.arg, NthOf(HeaderStarts(result.arg), n)) + 1,
                                          SectionEnd(result.arg, n)))

\* the positions of the sections of the document that have the name, letter
\* case aside
Named(doc, name) == {i \in 1..Len(doc.Sections) : SameFold(doc.Sections[i].Name, name)}

MissingAt(doc, docType) ==
    {i \in 1..Len(RequiredSections[docType]) :
        \A k \in 1..Len(doc.Sections) :
            ~SameFold(doc.Sections[k].Name, RequiredSections[docType][i])}

\* C21: Validate returns one error for each required section of the type
\* that no section of the document is named as, letter case aside, in the
\* order of the list of required sections, and no other error.
C21_ValidateAll ==
    result.op = "Validate" =>
        /\ Len(result.val) = Cardinality(MissingAt(result.arg.doc, result.arg.type))
        /\ \A n \in 1..Len(result.val) :
              result.val[n].Section
                 = RequiredSections[result.arg.type][NthOf(MissingAt(result.arg.doc,
                                                                      result.arg.type), n)]

C21_Witness ==
    /\ result.op = "Validate"
    /\ result.arg.type = "SPEC"
    /\ Len(result.arg.doc.Sections) = 7
    /\ Len(result.val) = 2
    /\ result.val[1].Section = <<"A","C","C","E","P","T","A","N","C","E">>
    /\ result.val[2].Section = <<"E","D","G","E","-","C","A","S","E","S">>


(***************************************************************************)
(* Claims about the scaffolding commands.                                  *)
(***************************************************************************)
\* the entry of the name among the entries
EntryIn(entries, name) == CHOOSE x \in entries : x.name = name

\* the documents the command asks for before it writes its own
Prerequisites(op) == IF op = "plan" THEN {"SPEC.md"} ELSE {"SPEC.md", "PLAN.md"}

\* the document the command looks for
Required(op) == IF op = "plan" THEN "SPEC.md" ELSE "PLAN.md"

\* the document the command is run to create
Requested(op) == IF op = "plan" THEN "PLAN.md" ELSE "TASKS.md"

\* the file is in the entry afterwards: as it was when it was there before,
\* as its template when it was not
KeptOrTemplate(pre, post, f) ==
    /\ post.files[f].exists
    /\ post.files[f].data = IF pre.files[f].exists THEN pre.files[f].data ELSE Templates[f]

\* C22: kit plan on a feature without SPEC.md, and kit tasks on a feature
\* without PLAN.md, fail and leave every file as it was when neither
\* --force nor allow_out_of_order is set; with either of them the command
\* succeeds, the prerequisite documents that were missing are there with
\* their template content, and so is the requested document.
C22_Prerequisites ==
    [][(result'.op \in {"plan", "tasks"} /\ result'.err # "NotFound"
           /\ ~Stat(Entry(result'.val), Required(result'.op)))
        => IF ~(result'.arg.force \/ result'.arg.allow)
           THEN /\ ~result'.ok
                /\ result'.err = "MissingPrerequisite"
                /\ root' = root
                /\ summary' = summary
           ELSE /\ result'.ok
                /\ \A f \in Prerequisites(result'.op) \cup {Requested(result'.op)} :
                      KeptOrTemplate(Entry(result'.val), EntryIn(root', result'.val), f)]_vars

C22_Witness ==
    /\ result.op = "tasks"
    /\ ~result.ok
    /\ result.err = "MissingPrerequisite"
    /\ Stat(Entry(result.val), "SPEC.md")
    /\ ~Stat(Entry(result.val), "PLAN.md")
    /\ ~Stat(Entry(result.val), "TASKS.md")


\* the scaffolding commands, by the name their step records
Scaffolders == {"spec", "plan", "tasks", "oneshot", "scaffold"}

\* C29: over a step of kit spec, kit plan, kit tasks, kit oneshot or kit
\* scaffold, with or without --force, every entry of the specs directory is
\* still there under its name, every document that existed keeps its content,
\* and a document that is new holds its template.
C29_NeverOverwrites ==
    [][result'.op \in Scaffolders
        => /\ \A x \in root : \E y \in root' :
                 /\ y.name = x.name
                 /\ y.isDir = x.isDir
                 /\ \A f \in FileNames : x.files[f].exists => y.files[f] = x.files[f]
           /\ \A y \in root', f \in FileNames :
                 (y.files[f].exists /\ \A x \in root : x.name = y.name => ~x.files[f].exists)
                    => y.files[f].data = Templates[f]]_vars

C29_Witness ==
    /\ result.op = "scaffold"
    /\ result.ok
    /\ Entry(result.val).files["SPEC.md"].data = DocText
    /\ Entry(result.val).files["PLAN.md"].data = DocText
    /\ Entry(result.val).files["ANALYSIS.md"].data = Templates["ANALYSIS.md"]


\* C30: from an empty specs directory, with allow_out_of_order off, after
\* any run of kit spec, plan, tasks, oneshot, scaffold and complete, every
\* feature directory that holds TASKS.md holds PLAN.md, and every feature
\* directory that holds PLAN.md holds SPEC.md.
C30_PipelineOrder ==
    \A x \in root :
        /\ Stat(x, "TASKS.md") => Stat(x, "PLAN.md")
        /\ Stat(x, "PLAN.md") => Stat(x, "SPEC.md")

C30_Witness ==
    /\ result.op = "tasks"
    /\ result.ok
    /\ ~result.arg.force
    /\ Stat(Entry(result.val), "TASKS.md")
    /\ Stat(Entry(result.val), "PLAN.md")
    /\ ~Stat(Entry(result.val), "ANALYSIS.md")
    /\ \E x \in root : Stat(x, "SPEC.md") /\ ~Stat(x, "PLAN.md")


(***************************************************************************)
(* Claims about MergeDocument.                                             *)
(***************************************************************************)
\* the sections of the template that no section of the file is named as,
\* letter case aside, in the order of the template
AbsentSections(content, templateContent) ==
    SelectSeq(Parse(templateContent).Sections,
              LAMBDA ts : Named(Parse(content), ts.Name) = {})

\* the text of the sections as MergeDocument adds them to a file
RECURSIVE SectionsText(_)
SectionsText(ss) ==
    IF Len(ss) = 0 THEN <<>>
    ELSE <<"\n", "\n", "#", "#", " ">> \o Head(ss).Name \o <<"\n", "\n">>
         \o Head(ss).Content \o SectionsText(Tail(ss))

\* what MergeDocument keeps and adds: the file that existed is the start of
\* the file afterwards, followed by the template sections it had not, in
\* template order; with none missing the file is not written.
C23_KeepsAndAdds ==
    (result.op = "MergeDocument" /\ result.arg.file.exists) =>
        /\ result.val.file.exists
        /\ result.val.file.data
              = result.arg.file.data
                   \o SectionsText(AbsentSections(result.arg.file.data, result.arg.template))
        /\ result.val.written
              <=> AbsentSections(result.arg.file.data, result.arg.template) # <<>>

\* C23 as claimed: MergeDocument keeps the file and adds the template
\* sections it had not, writes nothing when none is missing, and a second
\* MergeDocument with the same template changes nothing.
C23_Merge ==
    /\ C23_KeepsAndAdds
    /\ (result.op = "MergeDocument" /\ result.arg.calls = 2) =>
          /\ ~result.val.written
          /\ result.val.file = result.arg.file


(***************************************************************************)
(* Claims about concurrent invocations.                                    *)
(***************************************************************************)
\* both invocations have returned, and both had checked and computed their
\* number before either called os.MkdirAll
RacedToMkdir ==
    /\ result.op = "race"
    /\ \A p \in RaceProcs : result.val.procs[p].pc = "done" /\ result.val.procs[p].made > 0
    /\ \A p, q \in RaceProcs : result.val.procs[p].checked < result.val.procs[q].made

\* C24: when two invocations of Create for one valid slug both check and
\* compute their number before either makes its directory, neither fails,
\* both name the same directory, and one directory of that slug exists.
C24_RacingCreate ==
    RacedToMkdir =>
        /\ \A p \in RaceProcs : result.val.procs[p].ok
        /\ \A p, q \in RaceProcs : result.val.procs[p].dirName = result.val.procs[q].dirName
        /\ Cardinality({x \in FeatureDirs(root) : SlugOfName(x.name) = result.arg}) = 1
        /\ \A p \in RaceProcs :
              \E x \in root : x.isDir /\ x.name = result.val.procs[p].dirName

C24_Witness ==
    /\ RacedToMkdir
    /\ result.arg = <<"a">>
    /\ result.val.procs[1].dirName = <<"0", "0", "0", "2", "-", "a">>
    /\ result.val.procs[2].made < result.val.procs[1].made


(***************************************************************************)
(* Claims about edits of the documents.                                    *)
(***************************************************************************)
PhaseOrder == <<PhaseSpec, PhasePlan, PhaseTasks, PhaseImplement, PhaseReflect, PhaseComplete>>

\* the place of a phase in the order
RankOf(phase) == CHOOSE i \in 1..Len(PhaseOrder) : PhaseOrder[i] = phase

\* C25: over a forward edit (PLAN.md created, TASKS.md created, a box
\* checked, the marker appended) the phase of no feature moves backward in
\* the order spec, plan, tasks, implement, reflect, complete; and a call of
\* DeterminePhase, right after a backward edit as at any other time, succeeds
\* and returns the phase of the files as they are.
C25_ForwardMonotone ==
    [][/\ result'.op = "forward" =>
              \A x \in root :
                  RankOf(DeterminePhase(x)) <= RankOf(DeterminePhase(EntryIn(root', x.name)))
       /\ result'.op = "DeterminePhase" =>
              /\ result'.ok
              /\ result'.val = TableOf(EntryIn(root', result'.arg))
              /\ root' = root]_vars

C25_Witness ==
    /\ result.op = "forward"
    /\ result.arg.kind = "check"
    /\ DeterminePhase(Entry(result.arg.dir)) = PhaseComplete
    /\ ~Stat(Entry(result.arg.dir), "PLAN.md")


(***************************************************************************)
(* Claims about repeated calls and directory names.                        *)
(***************************************************************************)
\* C26 as claimed: when EnsureExists created a feature for a reference, the
\* next call of EnsureExists with the same reference succeeds, returns the
\* same feature as not created, and leaves the specs directory as it was.
C26_Repeatable ==
    [][(/\ result.op = "EnsureExists"
        /\ result.ok
        /\ result.val.created
        /\ result'.op = "EnsureExists"
        /\ result'.arg = result.arg)
        => /\ result'.ok
           /\ ~result'.val.created
           /\ result'.val.feat = result.val.feat
           /\ root' = root]_vars

\* the same for the references that are a slug or a slug in another case
C26_RepeatableForSlugs ==
    [][(/\ result.op = "EnsureExists"
        /\ result.ok
        /\ result.val.created
        /\ ValidateSlug(ToLower(result.arg))
        /\ result'.op = "EnsureExists"
        /\ result'.arg = result.arg)
        => /\ result'.ok
           /\ ~result'.val.created
           /\ result'.val.feat = result.val.feat
           /\ root' = root]_vars


\* C27 as claimed: for every numeric width and separator configured, every
\* number from 1 on and every valid slug, ParseDirName of the name
\* FormatDirName wrote succeeds and returns the number and the slug.
C27_RoundTrip ==
    result.op = "ParseDirName" =>
        /\ result.val.ok
        /\ result.val.number = result.arg.number
        /\ result.val.slug = result.arg.slug

\* the same for the configurations whose separator is the hyphen
C27_RoundTripHyphen ==
    (result.op = "ParseDirName" /\ result.arg.cfg.Separator = <<"-">>) =>
        /\ result.val.ok
        /\ result.val.number = result.arg.number
        /\ result.val.slug = result.arg.slug


(***************************************************************************)
(* Claims about the progress table.                                        *)
(***************************************************************************)
\* C28 as claimed: phaseMarker returns the complete marker when the target
\* precedes the current phase in the order spec, plan, tasks, implement,
\* reflect, complete, the current marker when they are the same, and the
\* pending marker when the target follows, for every phase inferred.
C28_PhaseMarker ==
    result.op = "phaseMarker" =>
        result.val = IF RankOf(result.arg.target) < RankOf(result.arg.current) THEN "complete"
                     ELSE IF result.arg.target = result.arg.current THEN "current"
                     ELSE "pending"

\* the same for the current phases before complete
C28_PhaseMarkerBeforeComplete ==
    (result.op = "phaseMarker" /\ result.arg.current # PhaseComplete) =>
        result.val = IF RankOf(result.arg.target) < RankOf(result.arg.current) THEN "complete"
                     ELSE IF result.arg.target = result.arg.current THEN "current"
                     ELSE "pending"

====
